---- MODULE Spec2Model ----
(***************************************************************************)
(* The Synaptics driver of libfprint (drivers/synaptics/synaptics.c): the  *)
(* command state machine, the command issue function and the action        *)
(* callbacks, as one state machine.  A step of the model is one callback   *)
(* of the main loop run to its end: an action entry point, cancel(), or    *)
(* the completion of one USB transfer.                                     *)
(*                                                                         *)
(* The C functions are operators from a record w, holding every variable   *)
(* of the model, to the record after the call; an action applies a         *)
(* handler to the current state and stores the resulting record.           *)
(***************************************************************************)
EXTENDS Integers, Sequences, FiniteSets, Bags, TLC

VARIABLES
  \* FpiDeviceSynaptics
  cmd_ssm,                  \* TRUE when self->cmd_ssm is not NULL
  ssm_cur_state,            \* cursor of the state machine cmd_ssm points to
  ssm_data,                 \* its data: the SynCmdMsgCallback of the run
  cmd_pending_transfer,     \* TRUE when self->cmd_pending_transfer is not NULL
  last_seq_num,
  cmd_seq_num,
  cmd_complete_on_removal,
  cmd_complete_error,
  finger_on_sensor,
  enroll_stage,
  list_result,
  interrupt_cancellable,    \* identity of the current GCancellable
  \* the USB transport
  transfers,                \* bag of the transfers submitted and not completed
  cancelled_toks,           \* the GCancellables that were cancelled
  \* what the FpDevice layer sees
  action,                   \* the current action, "none" when idle
  n_complete,               \* fpi_device_*_complete calls since the action began
  complete_error,           \* error argument of the last such call
  complete_result,          \* prints argument of the last list completion
  n_report,                 \* fpi_device_verify_report calls since the action began
  progress_events,          \* fpi_device_enroll_progress calls of the last callback
  crashed,                  \* a g_assert failed
  assert_failed,            \* the assertion that failed, "none" when none did
  live_ssm,                 \* FpiSsm objects started and not yet finished
  \* history
  run_done,                 \* cmd_ssm_done ran since the action began
  n_actions,
  n_cancels,
  real_seq_num,             \* sequence number written to the last frame
  seq_arg,                  \* seq_num argument of the last synaptics_sensor_cmd
  prev_seq0,                \* frame value of the seq_num-0 call before the last
  last_seq0,                \* frame value of the last seq_num-0 call
  wrapped,                  \* a call from prev_seq0's to last_seq0's passed 255
  wrap_since,               \* a call since last_seq0's passed 255
  finger_off_seen,          \* a finger-off report was processed since arming
  deferred_reported,        \* cmd_ssm_done reported the deferred result
  cancel_during_run,        \* cancel() was called while this run was active
  records_sent,             \* the records of the template reports the device sent
  last_event,               \* what the last handler did
  \* dev_probe
  probe,                    \* the device probed and what dev_probe made of it
  \* drivers/virtual-device.c
  vdev,                     \* the FpDeviceVirtualDevice and its main loop
  \* fp-context.c
  context                   \* the FpContext, its drivers and its main loop

session_vars == << cmd_ssm, ssm_cur_state, ssm_data, cmd_pending_transfer, last_seq_num,
           cmd_seq_num, cmd_complete_on_removal, cmd_complete_error,
           finger_on_sensor, enroll_stage, list_result, interrupt_cancellable,
           transfers, cancelled_toks, action, n_complete, complete_error,
           complete_result, n_report, progress_events, crashed, assert_failed,
           live_ssm,
           run_done, n_actions, n_cancels, real_seq_num, seq_arg, prev_seq0,
           last_seq0, wrapped, wrap_since, finger_off_seen, deferred_reported, cancel_during_run,
           records_sent, last_event >>

vars == << session_vars, probe, vdev, context >>

----------------------------------------------------------------------------
\* Bounds of the model

MaxActions == 2
MaxCancels == 1
MaxRecords == 2
MaxComplete == 2

\* Program constants

\* guint8 real_seq_num: sequence numbers are kept modulo 2^8
SeqMod == 256
ENROLL_SAMPLES == 5

\* SynapticsCmdState, in the order of the state list
SYNAPTICS_CMD_SEND_PENDING == 0
SYNAPTICS_CMD_GET_RESP == 1
SYNAPTICS_CMD_WAIT_INTERRUPT == 2
SYNAPTICS_CMD_SEND_ASYNC == 3
SYNAPTICS_CMD_RESTART == 4
SYNAPTICS_CMD_NUM_STATES == 5

\* Session points the model starts from: right after the device was opened
\* (dev_init issued command 1) and late in a session, two commands before
\* the 8-bit sequence number is used up.
InitSeqNums == {1, 254}

NoTok == -1
NullList == [isnull |-> TRUE, prints |-> << >>]
\* What one handler did: h the handler; action the current action when it
\* was called; kind the transfer that completed;
\* fault the error of that transfer or of the frame it carried; cancelled
\* that the transfer resolved as cancelled; was_armed cmd_complete_on_removal
\* at that time; msg_id, seq, finger, payload the frame a reply read returned;
\* err_code the code of a general error; id, result, mismatch the response it read;
\* called, complete, queued, armed the interpreter call on that response;
\* cb_null, cb_error the interpreter calls without a response; cmd the
\* command it issued; ended how the run ended; entered the states the
\* machine entered, each with the way it was entered.
NoEvent == [h |-> "none", action |-> "none", kind |-> "none", fault |-> "none",
            cancelled |-> FALSE, was_armed |-> FALSE, msg_id |-> "none",
            seq |-> "none", finger |-> "none", payload |-> << 0, 0 >>,
            err_code |-> 0, id |-> "none", result |-> "none",
            mismatch |-> FALSE, called |-> FALSE, complete |-> FALSE,
            queued |-> FALSE, armed |-> FALSE, cb_null |-> 0,
            cb_error |-> "none", cmd |-> "none", pending |-> FALSE,
            ended |-> "none", entered |-> {}, report |-> FALSE,
            progress |-> 0, done_stages |-> 0, stage_before |-> 0]



\* A device that was not probed yet: firmware is the version the device
\* reports, mis_version what dev_probe has read of it.
NoVersion == [version_major |-> 0, version_minor |-> 0, build_num |-> 0]

NoProbe == [firmware |-> NoVersion, mis_version |-> NoVersion, done |-> FALSE,
            usb_open |-> FALSE, error |-> "none", serial |-> FALSE,
            fault |-> "none"]

\* GError values: the domain and the code
NoError == [domain |-> "none", code |-> 0]
G_IO_ERROR_NOT_FOUND == [domain |-> "G_IO_ERROR", code |-> 1]
G_IO_ERROR_TIMED_OUT == [domain |-> "G_IO_ERROR", code |-> 24]

g_error_matches(error, e) == error # NoError /\ error = e

\* What one handler of the virtual device did: h the handler; processed
\* that it called process_cmds, scan with that argument, queue and storage
\* what the device held when it was called, res and error what the call
\* returned; waits that should_wait_for_command returned TRUE; cleared the
\* timer recv_instruction_cb removed; cmd the command it received; rerun
\* the action it ran again; timer the timer that fired; action the current
\* action and n_complete the completions when the handler was called.
NoVirtualEvent ==
  [h |-> "none", processed |-> FALSE, scan |-> FALSE, queue |-> << >>,
   storage |-> {}, res |-> 0, error |-> NoError, waits |-> FALSE,
   cleared |-> 0, cmd |-> "none", rerun |-> "none", timer |-> 0,
   action |-> "none", n_complete |-> 0]

\* The virtual device before fpi_device_virtual_device_init: sources are the
\* timeout sources of the main loop, last_source the id of the newest;
\* current_action, n_complete, complete_error, complete_id and n_report
\* are what the FpDevice layer sees.
NoVdev ==
  [pending_commands |-> << >>, storage_null |-> TRUE, prints_storage |-> {},
   wait_command_id |-> 0, sources |-> {}, last_source |-> 0,
   current_action |-> "none", n_actions |-> 0, n_complete |-> 0,
   complete_error |-> NoError, complete_id |-> 0, n_report |-> 0,
   verify_print |-> 0, match |-> "none",
   crashed |-> FALSE, last |-> NoVirtualEvent]

\* What one handler of the context did: h the handler; device the USB
\* device it was called for (vid 0 for none) and scores what usb_discover
\* returned for it, by driver; driver the driver whose initialisation it
\* started for that device (0 for none) and usb_started how many it started
\* for it; started the initialisations it started; was_enumerated priv->enumerated when it was called; outcome
\* how the initialisation that finished ended.
NoContextEvent ==
  [h |-> "none", device |-> [vid |-> 0, pid |-> 0], scores |-> << >>,
   driver |-> 0, usb_started |-> 0, started |-> 0, was_enumerated |-> FALSE,
   outcome |-> "none"]

\* A context with no drivers.  inits are the initialisations started by
\* g_async_initable_new_async whose callback has not run; enumerating
\* tells that fp_context_enumerate is in its loop; n_started and
\* n_finished count the initialisations started and finished.
NoContext ==
  [drivers |-> << >>, environ |-> {}, devices |-> << >>,
   pending_devices |-> 0, enumerated |-> FALSE, enumerating |-> FALSE,
   inits |-> << >>, n_started |-> 0, n_finished |-> 0, n_calls |-> 0,
   last |-> NoContextEvent]

\* a g_assert whose expression is false aborts the program
g_assert_fails(w, expr) == [w EXCEPT !.crashed = TRUE, !.assert_failed = expr]

Max(a, b) == IF a > b THEN a ELSE b
Min(a, b) == IF a < b THEN a ELSE b

----------------------------------------------------------------------------
\* The state as one record, and back

World ==
  [ cmd_ssm |-> cmd_ssm, ssm_cur_state |-> ssm_cur_state, ssm_data |-> ssm_data,
    cmd_pending_transfer |-> cmd_pending_transfer, last_seq_num |-> last_seq_num,
    cmd_seq_num |-> cmd_seq_num,
    cmd_complete_on_removal |-> cmd_complete_on_removal,
    cmd_complete_error |-> cmd_complete_error,
    finger_on_sensor |-> finger_on_sensor, enroll_stage |-> enroll_stage,
    list_result |-> list_result, interrupt_cancellable |-> interrupt_cancellable,
    transfers |-> transfers, cancelled_toks |-> cancelled_toks,
    action |-> action, n_complete |-> n_complete,
    complete_error |-> complete_error, complete_result |-> complete_result,
    n_report |-> n_report, progress_events |-> progress_events,
    crashed |-> crashed, assert_failed |-> assert_failed, live_ssm |-> live_ssm, run_done |-> run_done,
    n_actions |-> n_actions, n_cancels |-> n_cancels,
    real_seq_num |-> real_seq_num, seq_arg |-> seq_arg,
    prev_seq0 |-> prev_seq0, last_seq0 |-> last_seq0, wrapped |-> wrapped,
    wrap_since |-> wrap_since,
    finger_off_seen |-> finger_off_seen,
    deferred_reported |-> deferred_reported,
    cancel_during_run |-> cancel_during_run,
    records_sent |-> records_sent, last_event |-> last_event ]

\* A failed g_assert aborts the process: nothing of the handler's work is
\* seen, the state stays as it was with the crash recorded.
Store(w) ==
  \E v \in {w} : \E r \in {IF v.crashed
               THEN [World EXCEPT !.crashed = TRUE,
                                  !.assert_failed = v.assert_failed]
               ELSE v} :
  /\ cmd_ssm' = r.cmd_ssm
  /\ ssm_cur_state' = r.ssm_cur_state
  /\ ssm_data' = r.ssm_data
  /\ cmd_pending_transfer' = r.cmd_pending_transfer
  /\ last_seq_num' = r.last_seq_num
  /\ cmd_seq_num' = r.cmd_seq_num
  /\ cmd_complete_on_removal' = r.cmd_complete_on_removal
  /\ cmd_complete_error' = r.cmd_complete_error
  /\ finger_on_sensor' = r.finger_on_sensor
  /\ enroll_stage' = r.enroll_stage
  /\ list_result' = r.list_result
  /\ interrupt_cancellable' = r.interrupt_cancellable
  /\ transfers' = r.transfers
  /\ cancelled_toks' = r.cancelled_toks
  /\ action' = r.action
  /\ n_complete' = r.n_complete
  /\ complete_error' = r.complete_error
  /\ complete_result' = r.complete_result
  /\ n_report' = r.n_report
  /\ progress_events' = r.progress_events
  /\ crashed' = r.crashed
  /\ assert_failed' = r.assert_failed
  /\ live_ssm' = r.live_ssm
  /\ run_done' = r.run_done
  /\ n_actions' = r.n_actions
  /\ n_cancels' = r.n_cancels
  /\ real_seq_num' = r.real_seq_num
  /\ seq_arg' = r.seq_arg
  /\ prev_seq0' = r.prev_seq0
  /\ last_seq0' = r.last_seq0
  /\ wrapped' = r.wrapped
  /\ wrap_since' = r.wrap_since
  /\ finger_off_seen' = r.finger_off_seen
  /\ deferred_reported' = r.deferred_reported
  /\ cancel_during_run' = r.cancel_during_run
  /\ records_sent' = r.records_sent
  /\ last_event' = r.last_event
  /\ UNCHANGED << probe, vdev, context >>

----------------------------------------------------------------------------
\* The FpDevice layer: completion and progress calls of the driver

\* fpi_device_{list,verify,enroll,delete}_complete: the action is over once
\* the handler returns to the main loop.
fpi_device_complete(w, error, result) ==
  [w EXCEPT !.n_complete = Min(@ + 1, MaxComplete),
            !.complete_error = error,
            !.complete_result = result,
            !.action = "none"]

fpi_device_verify_report(w) == [w EXCEPT !.n_report = Min(@ + 1, MaxComplete)]

fpi_device_enroll_progress(w, stage, retry) ==
  [w EXCEPT !.progress_events = Append(@, [stage |-> stage, retry |-> retry])]

----------------------------------------------------------------------------
\* The USB transport

Transfer(kind, tok, timeout) == [kind |-> kind, tok |-> tok, timeout |-> timeout]

fpi_usb_transfer_submit(w, t) ==
  [w EXCEPT !.transfers = @ (+) SetToBag({t})]

RECURSIVE synaptics_cmd_run_state(_)

----------------------------------------------------------------------------
\* synaptics_sensor_cmd: number the frame, then send it at once (seq_num -1)
\* or hand it to the command state machine.  callback is "none" for NULL.

Entered(state, by) == [state |-> state, by |-> by]

fpi_ssm_start(w) ==
  synaptics_cmd_run_state(
    [w EXCEPT !.ssm_cur_state = 0,
              !.last_event.entered = @ \cup {Entered(0, "start")}])

\* The numbering of the frame.  Variants of it with a slip in the code:
\* the counter is not advanced,
synaptics_sensor_cmd_number_same(w, seq_num) ==
  LET next == Max(1, w.last_seq_num) % SeqMod IN
  IF seq_num <= 0
    THEN [w EXCEPT !.last_seq_num = next,
                   !.real_seq_num = next,
                   !.cmd_seq_num = IF seq_num = 0 THEN next ELSE @]
    ELSE [w EXCEPT !.real_seq_num = seq_num % SeqMod,
                   !.last_seq_num = seq_num % SeqMod]

\* cmd_seq_num follows the number of a seq_num -1 frame too,
synaptics_sensor_cmd_number_cmd(w, seq_num) ==
  LET next == Max(1, w.last_seq_num + 1) % SeqMod IN
  IF seq_num <= 0
    THEN [w EXCEPT !.last_seq_num = next,
                   !.real_seq_num = next,
                   !.cmd_seq_num = next]
    ELSE [w EXCEPT !.real_seq_num = seq_num % SeqMod,
                   !.last_seq_num = seq_num % SeqMod]

\* a positive seq_num is stored one too low.
synaptics_sensor_cmd_number_low(w, seq_num) ==
  LET next == Max(1, w.last_seq_num + 1) % SeqMod IN
  IF seq_num <= 0
    THEN [w EXCEPT !.last_seq_num = next,
                   !.real_seq_num = next,
                   !.cmd_seq_num = IF seq_num = 0 THEN next ELSE @]
    ELSE [w EXCEPT !.real_seq_num = seq_num % SeqMod,
                   !.last_seq_num = (seq_num - 1) % SeqMod]

\* last_seq_num + 1 is an int; the result is stored in 8 bits
synaptics_sensor_cmd_number(w, seq_num) ==
  LET next == Max(1, w.last_seq_num + 1) % SeqMod IN
  IF seq_num <= 0
    THEN [w EXCEPT !.last_seq_num = next,
                   !.real_seq_num = next,
                   !.cmd_seq_num = IF seq_num = 0 THEN next ELSE @]
    ELSE [w EXCEPT !.real_seq_num = seq_num % SeqMod,
                   !.last_seq_num = seq_num % SeqMod]

synaptics_sensor_cmd(w, seq_num, cmd_id, callback) ==
  LET w1 == synaptics_sensor_cmd_number(w, seq_num)
      wraps == seq_num <= 0 /\ w.last_seq_num + 1 >= SeqMod
      w2 == [w1 EXCEPT !.seq_arg = seq_num,
                       !.last_event.cmd = cmd_id,
                       !.prev_seq0 = IF seq_num = 0 THEN w.last_seq0 ELSE @,
                       !.last_seq0 = IF seq_num = 0 THEN w1.real_seq_num ELSE @,
                       !.wrapped = IF seq_num = 0 THEN w.wrap_since \/ wraps ELSE @,
                       !.wrap_since = IF seq_num = 0 THEN FALSE ELSE @ \/ wraps]
  IN
  IF seq_num = -1
    THEN IF callback # "none"
           THEN g_assert_fails(w2, "callback == NULL")
           ELSE fpi_usb_transfer_submit(w2, Transfer("forget_write", NoTok, 1000))
    ELSE IF w2.cmd_pending_transfer
           THEN g_assert_fails(w2, "cmd_pending_transfer == NULL")
           ELSE LET w3 == [w2 EXCEPT !.cmd_pending_transfer = TRUE] IN
                IF w3.cmd_ssm
                  THEN IF callback # "none"
                         THEN g_assert_fails(w3, "callback == NULL")
                         ELSE w3
                  ELSE IF callback = "none"
                         THEN g_assert_fails(w3, "callback != NULL")
                         ELSE fpi_ssm_start([w3 EXCEPT !.cmd_ssm = TRUE,
                                                       !.ssm_data = callback,
                                                       !.live_ssm = @ + 1,
                                                       !.cancel_during_run = FALSE])

----------------------------------------------------------------------------
\* The response interpreters.  resp.null stands for a NULL resp, error "none"
\* for a NULL error.

NoResp == [null |-> TRUE, response_id |-> "none", result |-> "none",
           complete |-> FALSE, progress |-> 0, templates |-> << >>]

\* The prints of one template records report: the slots with a user id, in
\* slot order (0 is a slot whose user_id_len is 0).
RECURSIVE NonEmptyTemplates(_)
NonEmptyTemplates(ts) ==
  IF ts = << >> THEN << >>
  ELSE IF Head(ts) = 0 THEN NonEmptyTemplates(Tail(ts))
  ELSE << Head(ts) >> \o NonEmptyTemplates(Tail(ts))

\* g_ptr_array_add that puts a print in front of the array
g_ptr_array_add_all_front(lr, ps) ==
  IF lr.isnull THEN lr ELSE [lr EXCEPT !.prints = ps \o @]

\* g_ptr_array_add does nothing on a NULL array
g_ptr_array_add_all(lr, ps) ==
  IF lr.isnull THEN lr ELSE [lr EXCEPT !.prints = @ \o ps]

\* list_msg_cb that takes an empty database for a failure
list_msg_cb_empty_fails(w, resp, error) ==
  IF error # "none"
    THEN fpi_device_complete([w EXCEPT !.list_result = NullList], error, NullList)
  ELSE IF resp.null THEN g_assert_fails(w, "resp != NULL")
  ELSE IF resp.response_id = "BMKT_RSP_QUERY_FAIL"
    THEN fpi_device_complete([w EXCEPT !.list_result = NullList],
                             "general", NullList)
  ELSE IF resp.response_id = "BMKT_RSP_QUERY_RESPONSE_COMPLETE"
    THEN fpi_device_complete([w EXCEPT !.list_result = NullList],
                             "none", w.list_result)
  ELSE IF resp.response_id = "BMKT_RSP_TEMPLATE_RECORDS_REPORT"
    THEN synaptics_sensor_cmd(
           [w EXCEPT !.list_result =
                       g_ptr_array_add_all(@, NonEmptyTemplates(resp.templates))],
           w.cmd_seq_num, "BMKT_CMD_GET_NEXT_QUERY_RESPONSE", "none")
  ELSE w

list_msg_cb(w, resp, error) ==
  IF error # "none"
    THEN fpi_device_complete([w EXCEPT !.list_result = NullList], error, NullList)
  ELSE IF resp.null THEN g_assert_fails(w, "resp != NULL")
  ELSE IF resp.response_id = "BMKT_RSP_QUERY_FAIL"
    THEN IF resp.result = "BMKT_FP_DATABASE_EMPTY"
           THEN fpi_device_complete([w EXCEPT !.list_result = NullList],
                                    "none", w.list_result)
           ELSE fpi_device_complete([w EXCEPT !.list_result = NullList],
                                    "general", NullList)
  ELSE IF resp.response_id = "BMKT_RSP_QUERY_RESPONSE_COMPLETE"
    THEN fpi_device_complete([w EXCEPT !.list_result = NullList],
                             "none", w.list_result)
  ELSE IF resp.response_id = "BMKT_RSP_TEMPLATE_RECORDS_REPORT"
    THEN synaptics_sensor_cmd(
           [w EXCEPT !.list_result =
                       g_ptr_array_add_all(@, NonEmptyTemplates(resp.templates))],
           w.cmd_seq_num, "BMKT_CMD_GET_NEXT_QUERY_RESPONSE", "none")
  ELSE w

verify_msg_cb(w, resp, error) ==
  IF error # "none" THEN fpi_device_complete(w, error, NullList)
  ELSE IF resp.null /\ w.cmd_complete_on_removal
    THEN fpi_device_complete(w, "none", NullList)
  ELSE IF resp.null THEN g_assert_fails(w, "resp != NULL")
  ELSE IF resp.response_id = "BMKT_RSP_VERIFY_FAIL"
    THEN IF resp.result = "BMKT_SENSOR_STIMULUS_ERROR"
           THEN [w EXCEPT !.cmd_complete_on_removal = TRUE,
                          !.cmd_complete_error = "retry",
                          !.finger_off_seen = FALSE]
         ELSE IF resp.result = "BMKT_FP_NO_MATCH"
           THEN [w EXCEPT !.cmd_complete_on_removal = TRUE,
                          !.cmd_complete_error = "none",
                          !.finger_off_seen = FALSE]
         ELSE IF resp.result = "BMKT_FP_DATABASE_NO_RECORD_EXISTS"
           THEN fpi_device_complete(w, "data_not_found", NullList)
         ELSE fpi_device_complete(fpi_device_verify_report(w), "none", NullList)
  ELSE IF resp.response_id = "BMKT_RSP_VERIFY_OK"
    THEN fpi_device_complete(fpi_device_verify_report(w), "none", NullList)
  ELSE w

\* done_stages rounded to the nearest stage instead of up
DoneStagesRounded(progress) ==
  LET d == (progress * ENROLL_SAMPLES + 50) \div 100 IN
  IF progress < 100 THEN Min(d, ENROLL_SAMPLES - 1) ELSE d

\* done_stages of an enroll report
DoneStages(progress) ==
  LET d == (progress * ENROLL_SAMPLES + 99) \div 100 IN
  IF progress < 100 THEN Min(d, ENROLL_SAMPLES - 1) ELSE d

\* The crediting loop written as one assignment of done_stages
EnrollCreditAssigned(w, done_stages) ==
  IF w.enroll_stage # done_stages
    THEN LET w1 == [w EXCEPT !.enroll_stage = done_stages] IN
         fpi_device_enroll_progress(w1, w1.enroll_stage, FALSE)
    ELSE w

\* while (self->enroll_stage < done_stages): one event per stage
RECURSIVE EnrollCredit(_, _)
EnrollCredit(w, done_stages) ==
  IF w.enroll_stage < done_stages
    THEN LET w1 == [w EXCEPT !.enroll_stage = @ + 1] IN
         EnrollCredit(fpi_device_enroll_progress(w1, w1.enroll_stage, FALSE),
                      done_stages)
    ELSE w

enroll_msg_cb(w, resp, error) ==
  IF error # "none" THEN fpi_device_complete(w, error, NullList)
  ELSE IF resp.null THEN g_assert_fails(w, "resp != NULL")
  ELSE IF resp.response_id = "BMKT_RSP_ENROLL_READY"
    THEN [w EXCEPT !.enroll_stage = 0, !.last_event.stage_before = w.enroll_stage]
  ELSE IF resp.response_id = "BMKT_RSP_ENROLL_REPORT"
    THEN LET done_stages == DoneStages(resp.progress)
             w1 == [w EXCEPT !.last_event.report = TRUE,
                             !.last_event.progress = resp.progress,
                             !.last_event.done_stages = done_stages,
                             !.last_event.stage_before = w.enroll_stage]
             w2 == IF w1.enroll_stage = done_stages
                     THEN fpi_device_enroll_progress(w1, done_stages, TRUE)
                     ELSE w1
         IN EnrollCredit(w2, done_stages)
  ELSE IF resp.response_id = "BMKT_RSP_ENROLL_FAIL"
    THEN IF resp.result = "BMKT_FP_DATABASE_FULL"
           THEN fpi_device_complete(w, "data_full", NullList)
           ELSE fpi_device_complete(w, "general", NullList)
  ELSE IF resp.response_id = "BMKT_RSP_ENROLL_OK"
    THEN fpi_device_complete(w, "none", NullList)
  ELSE w

delete_msg_cb(w, resp, error) ==
  IF error # "none" THEN fpi_device_complete(w, error, NullList)
  ELSE IF resp.null THEN g_assert_fails(w, "resp != NULL")
  ELSE IF resp.response_id = "BMKT_RSP_DEL_USER_FP_FAIL"
    THEN IF resp.result = "BMKT_FP_DATABASE_NO_RECORD_EXISTS"
           THEN fpi_device_complete(w, "data_not_found", NullList)
           ELSE fpi_device_complete(w, "general", NullList)
  ELSE IF resp.response_id = "BMKT_RSP_DEL_USER_FP_OK"
    THEN fpi_device_complete(w, "none", NullList)
  ELSE w

\* callback (self, resp, error) for the callback stored in the state machine
SynCmdMsgCallback(w, callback, resp, error) ==
  CASE callback = "list_msg_cb" -> list_msg_cb(w, resp, error)
    [] callback = "verify_msg_cb" -> verify_msg_cb(w, resp, error)
    [] callback = "enroll_msg_cb" -> enroll_msg_cb(w, resp, error)
    [] callback = "delete_msg_cb" -> delete_msg_cb(w, resp, error)
    [] OTHER -> w

----------------------------------------------------------------------------
\* The end of a run, and the state-machine engine

\* callback (self, NULL, error) is being called
CalledWithoutResp(w, error) ==
  [w EXCEPT !.last_event.cb_null = @ + 1, !.last_event.cb_error = error]

\* cmd_ssm_done that leaves self->cmd_ssm set
cmd_ssm_done_keeps_ssm(w, error) ==
  LET callback == w.ssm_data
      w1 == [w EXCEPT !.run_done = TRUE]
      w2 == IF error # "none"
              THEN SynCmdMsgCallback(CalledWithoutResp(w1, error),
                                     callback, NoResp, error)
            ELSE IF w1.cmd_complete_on_removal
              THEN [SynCmdMsgCallback(CalledWithoutResp(w1, w1.cmd_complete_error),
                                      callback, NoResp, w1.cmd_complete_error)
                      EXCEPT !.cmd_complete_error = "none",
                             !.deferred_reported = TRUE]
            ELSE w1
  IN [w2 EXCEPT !.cmd_complete_on_removal = FALSE,
                !.cmd_complete_error = "none"]

\* cmd_ssm_done that reports only the deferred result
cmd_ssm_done_drops_error(w, error) ==
  LET callback == w.ssm_data
      w1 == [w EXCEPT !.cmd_ssm = FALSE, !.ssm_cur_state = 0,
                      !.ssm_data = "none", !.run_done = TRUE]
      w2 == IF error = "none" /\ w1.cmd_complete_on_removal
              THEN [SynCmdMsgCallback(CalledWithoutResp(w1, w1.cmd_complete_error),
                                      callback, NoResp, w1.cmd_complete_error)
                      EXCEPT !.cmd_complete_error = "none",
                             !.deferred_reported = TRUE]
            ELSE w1
  IN [w2 EXCEPT !.cmd_complete_on_removal = FALSE,
                !.cmd_complete_error = "none"]

\* cmd_ssm_done that leaves the deferred completion armed
cmd_ssm_done_keeps_armed(w, error) ==
  LET callback == w.ssm_data
      w1 == [w EXCEPT !.cmd_ssm = FALSE, !.ssm_cur_state = 0,
                      !.ssm_data = "none", !.run_done = TRUE]
  IN
  IF error # "none"
    THEN SynCmdMsgCallback(CalledWithoutResp(w1, error), callback, NoResp, error)
  ELSE IF w1.cmd_complete_on_removal
    THEN [SynCmdMsgCallback(CalledWithoutResp(w1, w1.cmd_complete_error),
                            callback, NoResp, w1.cmd_complete_error)
            EXCEPT !.deferred_reported = TRUE]
  ELSE w1

cmd_ssm_done(w, error) ==
  LET callback == w.ssm_data
      w1 == [w EXCEPT !.cmd_ssm = FALSE, !.ssm_cur_state = 0,
                      !.ssm_data = "none", !.run_done = TRUE]
      w2 == IF error # "none"
              THEN SynCmdMsgCallback(CalledWithoutResp(w1, error),
                                     callback, NoResp, error)
            ELSE IF w1.cmd_complete_on_removal
              THEN [SynCmdMsgCallback(CalledWithoutResp(w1, w1.cmd_complete_error),
                                      callback, NoResp, w1.cmd_complete_error)
                      EXCEPT !.cmd_complete_error = "none",
                             !.deferred_reported = TRUE]
            ELSE w1
  IN [w2 EXCEPT !.cmd_complete_on_removal = FALSE,
                !.cmd_complete_error = "none"]

\* The machine calls its completion callback and is freed.
fpi_ssm_mark_completed(w) ==
  cmd_ssm_done([w EXCEPT !.live_ssm = @ - 1,
                         !.last_event.ended = "completed"], "none")

fpi_ssm_mark_failed(w, error) ==
  cmd_ssm_done([w EXCEPT !.live_ssm = @ - 1,
                         !.last_event.ended = "failed"], error)

fpi_ssm_next_state(w) ==
  IF w.ssm_cur_state + 1 = SYNAPTICS_CMD_NUM_STATES
    THEN fpi_ssm_mark_completed(w)
    ELSE synaptics_cmd_run_state(
           [w EXCEPT !.ssm_cur_state = @ + 1,
                     !.last_event.entered =
                        @ \cup {Entered(w.ssm_cur_state + 1, "next")}])

fpi_ssm_jump_to_state(w, state) ==
  synaptics_cmd_run_state(
    [w EXCEPT !.ssm_cur_state = state,
              !.last_event.entered = @ \cup {Entered(state, "jump")}])

\* Completion callback of the transfers a state hands to the engine
fpi_ssm_usb_transfer_cb(w, error) ==
  LET wl == [w EXCEPT !.last_event.h = "fpi_ssm_usb_transfer_cb"] IN
  IF error # "none" THEN fpi_ssm_mark_failed(wl, error)
  ELSE fpi_ssm_next_state(wl)

----------------------------------------------------------------------------
\* The command state machine

\* synaptics_cmd_run_state that does not wait for the command write
synaptics_cmd_run_state_no_wait(w) ==
  CASE w.ssm_cur_state = SYNAPTICS_CMD_SEND_PENDING ->
         IF w.cmd_pending_transfer
           THEN fpi_ssm_next_state(
                  [fpi_usb_transfer_submit(w, Transfer("cmd_write", NoTok, 1000))
                     EXCEPT !.cmd_pending_transfer = FALSE])
           ELSE fpi_ssm_next_state(w)
    [] w.ssm_cur_state = SYNAPTICS_CMD_GET_RESP ->
         fpi_usb_transfer_submit(w, Transfer("reply_read", NoTok, 5000))
    [] w.ssm_cur_state = SYNAPTICS_CMD_WAIT_INTERRUPT ->
         fpi_usb_transfer_submit(w, Transfer("interrupt", w.interrupt_cancellable, 0))
    [] w.ssm_cur_state = SYNAPTICS_CMD_SEND_ASYNC ->
         fpi_usb_transfer_submit(w, Transfer("async_write", NoTok, 1000))
    [] w.ssm_cur_state = SYNAPTICS_CMD_RESTART ->
         fpi_ssm_jump_to_state(w, SYNAPTICS_CMD_SEND_PENDING)
    [] OTHER -> w

\* synaptics_cmd_run_state that submits the stored command and keeps it stored
synaptics_cmd_run_state_keeps_slot(w) ==
  CASE w.ssm_cur_state = SYNAPTICS_CMD_SEND_PENDING ->
         IF w.cmd_pending_transfer
           THEN fpi_usb_transfer_submit(w, Transfer("cmd_write", NoTok, 1000))
           ELSE fpi_ssm_next_state(w)
    [] w.ssm_cur_state = SYNAPTICS_CMD_GET_RESP ->
         fpi_usb_transfer_submit(w, Transfer("reply_read", NoTok, 5000))
    [] w.ssm_cur_state = SYNAPTICS_CMD_WAIT_INTERRUPT ->
         fpi_usb_transfer_submit(w, Transfer("interrupt", w.interrupt_cancellable, 0))
    [] w.ssm_cur_state = SYNAPTICS_CMD_SEND_ASYNC ->
         fpi_usb_transfer_submit(w, Transfer("async_write", NoTok, 1000))
    [] w.ssm_cur_state = SYNAPTICS_CMD_RESTART ->
         fpi_ssm_jump_to_state(w, SYNAPTICS_CMD_SEND_PENDING)
    [] OTHER -> w

synaptics_cmd_run_state(w) ==
  CASE w.ssm_cur_state = SYNAPTICS_CMD_SEND_PENDING ->
         IF w.cmd_pending_transfer
           THEN [fpi_usb_transfer_submit(w, Transfer("cmd_write", NoTok, 1000))
                   EXCEPT !.cmd_pending_transfer = FALSE]
           ELSE fpi_ssm_next_state(w)
    [] w.ssm_cur_state = SYNAPTICS_CMD_GET_RESP ->
         fpi_usb_transfer_submit(w, Transfer("reply_read", NoTok, 5000))
    [] w.ssm_cur_state = SYNAPTICS_CMD_WAIT_INTERRUPT ->
         fpi_usb_transfer_submit(w, Transfer("interrupt", w.interrupt_cancellable, 0))
    [] w.ssm_cur_state = SYNAPTICS_CMD_SEND_ASYNC ->
         fpi_usb_transfer_submit(w, Transfer("async_write", NoTok, 1000))
    [] w.ssm_cur_state = SYNAPTICS_CMD_RESTART ->
         fpi_ssm_jump_to_state(w, SYNAPTICS_CMD_SEND_PENDING)
    [] OTHER -> w

----------------------------------------------------------------------------
\* Frames of the reply endpoint, as the two parsers see them

bmkt_parse_message_header(f) == f.hdr_ok

bmkt_parse_message_payload(f) ==
  [null |-> FALSE, response_id |-> f.msg_id, result |-> f.result,
   complete |-> f.complete, progress |-> f.progress, templates |-> f.templates]

\* The step after the interpreter has returned, with three slips: an
\* incomplete response taken for a complete one,
cmd_recieve_cb_next_flipped(w, resp) ==
  IF w.cmd_pending_transfer
    THEN fpi_ssm_jump_to_state(w, SYNAPTICS_CMD_SEND_PENDING)
  ELSE IF resp.complete \/ w.cmd_complete_on_removal
    THEN fpi_ssm_next_state(w)
  ELSE fpi_ssm_mark_completed(w)

\* deferred completion not looked at,
cmd_recieve_cb_next_undeferred(w, resp) ==
  IF w.cmd_pending_transfer
    THEN fpi_ssm_jump_to_state(w, SYNAPTICS_CMD_SEND_PENDING)
  ELSE IF ~resp.complete
    THEN fpi_ssm_next_state(w)
  ELSE fpi_ssm_mark_completed(w)

\* and completion looked at before the queued command.
cmd_recieve_cb_next_complete_first(w, resp) ==
  IF resp.complete /\ ~w.cmd_complete_on_removal
    THEN fpi_ssm_mark_completed(w)
  ELSE IF w.cmd_pending_transfer
    THEN fpi_ssm_jump_to_state(w, SYNAPTICS_CMD_SEND_PENDING)
  ELSE fpi_ssm_next_state(w)

\* the step after the interpreter call that does not look at the queue
cmd_recieve_cb_next_ignores_queued(w, resp) ==
  IF ~resp.complete \/ w.cmd_complete_on_removal
    THEN fpi_ssm_next_state(w)
  ELSE fpi_ssm_mark_completed(w)

cmd_recieve_cb_next(w, resp) ==
  IF w.cmd_pending_transfer
    THEN fpi_ssm_jump_to_state(w, SYNAPTICS_CMD_SEND_PENDING)
  ELSE IF ~resp.complete \/ w.cmd_complete_on_removal
    THEN fpi_ssm_next_state(w)
  ELSE fpi_ssm_mark_completed(w)

\* The sequence number check and the interpreter call, where a response
\* with the wrong sequence number fails the run
cmd_recieve_cb_callback_strict(w, f, resp) ==
  LET wm == [w EXCEPT !.last_event.id = resp.response_id,
                      !.last_event.result = resp.result,
                      !.last_event.mismatch = (f.seq_num # w.cmd_seq_num)]
  IN
  IF f.seq_num # w.cmd_seq_num THEN fpi_ssm_mark_failed(wm, "proto")
  ELSE
  LET wc == SynCmdMsgCallback(wm, wm.ssm_data, resp, "none")
      wd == [wc EXCEPT !.last_event.called = TRUE,
                       !.last_event.complete = resp.complete,
                       !.last_event.queued = wc.cmd_pending_transfer,
                       !.last_event.armed = wc.cmd_complete_on_removal]
  IN cmd_recieve_cb_next(wd, resp)

\* The sequence number check, which only warns, and the interpreter call
cmd_recieve_cb_callback(w, f, resp) ==
  LET wm == [w EXCEPT !.last_event.id = resp.response_id,
                      !.last_event.result = resp.result,
                      !.last_event.mismatch = (f.seq_num # w.cmd_seq_num)]
      wc == SynCmdMsgCallback(wm, wm.ssm_data, resp, "none")
      wd == [wc EXCEPT !.last_event.called = TRUE,
                       !.last_event.complete = resp.complete,
                       !.last_event.queued = wc.cmd_pending_transfer,
                       !.last_event.armed = wc.cmd_complete_on_removal]
  IN cmd_recieve_cb_next(wd, resp)

\* The 16-bit big-endian number at the start of payload p
FP_READ_UINT16_BE(p) == p[1] * 256 + p[2]

\* cmd_recieve_cb that does not abort the command on a general error
cmd_recieve_cb_unsolicited_tolerant(w, f) ==
  fpi_ssm_next_state(w)

\* A frame with sequence number 0: a general error fails the run, any
\* other message is ignored
cmd_recieve_cb_unsolicited(w, f) ==
  IF f.msg_id = "BMKT_RSP_GENERAL_ERROR"
    THEN fpi_ssm_mark_failed(
           [w EXCEPT !.last_event.err_code = FP_READ_UINT16_BE(f.payload)],
           "proto")
    ELSE fpi_ssm_next_state(w)

\* cmd_recieve_cb that looks at the sequence number before the response id
cmd_recieve_cb_response_seq_first(w, f, resp) ==
  IF f.seq_num = 0
    THEN cmd_recieve_cb_unsolicited(w, f)
  ELSE IF resp.response_id = "BMKT_RSP_CANCEL_OP_OK"
    THEN fpi_ssm_mark_failed(w, "cancelled")
  ELSE IF resp.response_id = "BMKT_RSP_CANCEL_OP_FAIL"
    THEN fpi_ssm_mark_failed(w, "proto")
  ELSE cmd_recieve_cb_callback(w, f, resp)

\* A frame whose payload parsed: the cancel acknowledgments, then the
\* sequence number 0, then the interpreter
cmd_recieve_cb_response(w, f, resp) ==
  IF resp.response_id = "BMKT_RSP_CANCEL_OP_OK"
    THEN fpi_ssm_mark_failed(w, "cancelled")
  ELSE IF resp.response_id = "BMKT_RSP_CANCEL_OP_FAIL"
    THEN fpi_ssm_mark_failed(w, "proto")
  ELSE IF f.seq_num = 0
    THEN cmd_recieve_cb_unsolicited(w, f)
  ELSE cmd_recieve_cb_callback(w, f, resp)

\* cmd_recieve_cb that takes every payload but 0 of a finger report as a
\* finger on the sensor
cmd_recieve_cb_finger_nonzero(w, f, error) ==
  LET wl == [w EXCEPT !.last_event.h = "cmd_recieve_cb"] IN
  IF error # "none"
    THEN fpi_ssm_mark_failed(wl, error)
  ELSE IF ~bmkt_parse_message_header(f)
    THEN fpi_ssm_mark_failed(wl, "proto")
  ELSE
  LET isFinger == f.msg_id = "BMKT_EVT_FINGER_REPORT"
  IN
  IF isFinger /\ f.payload_len # 1
    THEN fpi_ssm_mark_failed(wl, "proto")
  ELSE IF isFinger /\ f.payload0 = 0 /\ wl.cmd_complete_on_removal
    THEN fpi_ssm_mark_completed([wl EXCEPT !.finger_on_sensor = FALSE,
                                           !.finger_off_seen = TRUE])
  ELSE
  LET wf == IF isFinger
              THEN [wl EXCEPT !.finger_on_sensor = (f.payload0 # 0),
                              !.finger_off_seen = @ \/ (f.payload0 = 0)]
              ELSE wl
      resp == bmkt_parse_message_payload(f)
  IN
  IF ~f.payload_ok
    THEN fpi_ssm_mark_failed(wf, "proto")
  ELSE cmd_recieve_cb_response(wf, f, resp)

\* Completion of the reply read
cmd_recieve_cb(w, f, error) ==
  LET wl == [w EXCEPT !.last_event.h = "cmd_recieve_cb"] IN
  IF error # "none"
    THEN fpi_ssm_mark_failed(wl, error)
  ELSE IF ~bmkt_parse_message_header(f)
    THEN fpi_ssm_mark_failed(wl, "proto")
  ELSE
  LET isFinger == f.msg_id = "BMKT_EVT_FINGER_REPORT"
  IN
  IF isFinger /\ f.payload_len # 1
    THEN fpi_ssm_mark_failed(wl, "proto")
  ELSE IF isFinger /\ f.payload0 # 1 /\ wl.cmd_complete_on_removal
    THEN fpi_ssm_mark_completed([wl EXCEPT !.finger_on_sensor = FALSE,
                                           !.finger_off_seen = TRUE])
  ELSE
  LET wf == IF isFinger
              THEN [wl EXCEPT !.finger_on_sensor = (f.payload0 = 1),
                              !.finger_off_seen = @ \/ (f.payload0 # 1)]
              ELSE wl
      resp == bmkt_parse_message_payload(f)
  IN
  IF ~f.payload_ok
    THEN fpi_ssm_mark_failed(wf, "proto")
  ELSE cmd_recieve_cb_response(wf, f, resp)

\* cmd_interrupt_cb that resubmits the read also when it advances
cmd_interrupt_cb_resubmits(w, pending, error) ==
  LET wl == [w EXCEPT !.last_event.h = "cmd_interrupt_cb",
                      !.last_event.pending = pending] IN
  IF error = "cancelled"
    THEN fpi_ssm_jump_to_state(wl, SYNAPTICS_CMD_GET_RESP)
  ELSE IF error # "none"
    THEN fpi_ssm_mark_failed(wl, error)
  ELSE IF pending
    THEN fpi_usb_transfer_submit(fpi_ssm_next_state(wl),
                                 Transfer("interrupt", NoTok, 1000))
  ELSE fpi_usb_transfer_submit(wl, Transfer("interrupt", NoTok, 1000))

\* cmd_interrupt_cb that goes to Get-Response at once on the pending bit
cmd_interrupt_cb_jumps(w, pending, error) ==
  LET wl == [w EXCEPT !.last_event.h = "cmd_interrupt_cb",
                      !.last_event.pending = pending] IN
  IF error = "cancelled"
    THEN fpi_ssm_jump_to_state(wl, SYNAPTICS_CMD_GET_RESP)
  ELSE IF error # "none"
    THEN fpi_ssm_mark_failed(wl, error)
  ELSE IF pending
    THEN fpi_ssm_jump_to_state(wl, SYNAPTICS_CMD_GET_RESP)
  ELSE fpi_usb_transfer_submit(wl, Transfer("interrupt", NoTok, 1000))

\* cmd_interrupt_cb that names the state it goes to on the pending bit
cmd_interrupt_cb_jumps_async(w, pending, error) ==
  LET wl == [w EXCEPT !.last_event.h = "cmd_interrupt_cb",
                      !.last_event.pending = pending] IN
  IF error = "cancelled"
    THEN fpi_ssm_jump_to_state(wl, SYNAPTICS_CMD_GET_RESP)
  ELSE IF error # "none"
    THEN fpi_ssm_mark_failed(wl, error)
  ELSE IF pending
    THEN fpi_ssm_jump_to_state(wl, SYNAPTICS_CMD_SEND_ASYNC)
  ELSE fpi_usb_transfer_submit(wl, Transfer("interrupt", NoTok, 1000))

\* cmd_interrupt_cb that treats a cancelled wait as any other error
cmd_interrupt_cb_fails_cancelled(w, pending, error) ==
  LET wl == [w EXCEPT !.last_event.h = "cmd_interrupt_cb",
                      !.last_event.pending = pending] IN
  IF error # "none"
    THEN fpi_ssm_mark_failed(wl, error)
  ELSE IF pending
    THEN fpi_ssm_next_state(wl)
  ELSE fpi_usb_transfer_submit(wl, Transfer("interrupt", NoTok, 1000))

\* Completion of the interrupt read; pending is the USB_ASYNC_MESSAGE_PENDING
\* bit of the status byte
cmd_interrupt_cb(w, pending, error) ==
  LET wl == [w EXCEPT !.last_event.h = "cmd_interrupt_cb",
                      !.last_event.pending = pending] IN
  IF error = "cancelled"
    THEN fpi_ssm_jump_to_state(wl, SYNAPTICS_CMD_GET_RESP)
  ELSE IF error # "none"
    THEN fpi_ssm_mark_failed(wl, error)
  ELSE IF pending
    THEN fpi_ssm_next_state(wl)
  ELSE fpi_usb_transfer_submit(wl, Transfer("interrupt", NoTok, 1000))

\* cmd_forget_cb that fails the active run when the write failed
cmd_forget_cb_fails_run(w, error) ==
  LET wl == [w EXCEPT !.last_event.h = "cmd_forget_cb"] IN
  IF error # "none" /\ wl.cmd_ssm
    THEN fpi_ssm_mark_failed(wl, error)
    ELSE wl

\* Completion of a write sent with sequence number -1: it only logs
cmd_forget_cb(w, error) ==
  [w EXCEPT !.last_event.h = "cmd_forget_cb"]

----------------------------------------------------------------------------
\* The entry points of the driver

list(w) ==
  synaptics_sensor_cmd([w EXCEPT !.list_result = [isnull |-> FALSE, prints |-> << >>]],
                       0, "BMKT_CMD_GET_TEMPLATE_RECORDS", "list_msg_cb")

\* valid: parse_print_data accepts the print's data
verify(w, valid) ==
  IF ~valid THEN fpi_device_complete(w, "data_invalid", NullList)
  ELSE synaptics_sensor_cmd(w, 0, "BMKT_CMD_VERIFY_USER", "verify_msg_cb")

enroll(w) == synaptics_sensor_cmd(w, 0, "BMKT_CMD_ENROLL_USER", "enroll_msg_cb")

delete_print(w, valid) ==
  IF ~valid THEN fpi_device_complete(w, "data_invalid", NullList)
  ELSE synaptics_sensor_cmd(w, 0, "BMKT_CMD_DEL_USER_FP", "delete_msg_cb")

\* cancel() that goes on with the cancellable it has cancelled
cancel_keeps_cancellable(w) ==
  LET w1 == synaptics_sensor_cmd(w, -1, "BMKT_CMD_CANCEL_OP", "none") IN
  [w1 EXCEPT !.cancelled_toks = @ \cup {w1.interrupt_cancellable}]

cancel(w) ==
  LET w1 == synaptics_sensor_cmd(w, -1, "BMKT_CMD_CANCEL_OP", "none") IN
  [w1 EXCEPT !.cancelled_toks = @ \cup {w1.interrupt_cancellable},
             !.interrupt_cancellable = @ + 1]

----------------------------------------------------------------------------
\* What the device can send on the reply endpoint

ProgressValues == {0, 100}
TemplateSets == {<< 1 >>, << 0, 2 >>}

OtherSeq(c) == IF c = 1 THEN 2 ELSE 1

Frame(id, seq, complete) ==
  [hdr_ok |-> TRUE, msg_id |-> id, seq_num |-> seq, payload_len |-> 0,
   payload0 |-> 0, payload |-> << 0, 0 >>, payload_ok |-> TRUE,
   result |-> "BMKT_SUCCESS", complete |-> complete, progress |-> 0, templates |-> << >>]

\* The response ids a frame can carry while the run's interpreter is
\* callback: the ids its switch names.  The interpreters do nothing on any
\* other id, as they do on the notices listed here.
PlainIds(callback) ==
  CASE callback = "verify_msg_cb" ->
         {"BMKT_RSP_VERIFY_READY", "BMKT_RSP_CAPTURE_COMPLETE", "BMKT_RSP_VERIFY_OK"}
    [] callback = "enroll_msg_cb" ->
         {"BMKT_RSP_ENROLL_READY", "BMKT_RSP_CAPTURE_COMPLETE",
          "BMKT_RSP_ENROLL_PAUSED", "BMKT_RSP_ENROLL_RESUMED", "BMKT_RSP_ENROLL_OK"}
    [] callback = "list_msg_cb" ->
         {"BMKT_RSP_QUERY_RESPONSE_COMPLETE", "BMKT_RSP_DELETE_PROGRESS"}
    [] callback = "delete_msg_cb" ->
         {"BMKT_RSP_DELETE_PROGRESS", "BMKT_RSP_DEL_USER_FP_OK"}
    [] OTHER -> {}

FailId(callback) ==
  CASE callback = "verify_msg_cb" -> "BMKT_RSP_VERIFY_FAIL"
    [] callback = "enroll_msg_cb" -> "BMKT_RSP_ENROLL_FAIL"
    [] callback = "list_msg_cb" -> "BMKT_RSP_QUERY_FAIL"
    [] OTHER -> "BMKT_RSP_DEL_USER_FP_FAIL"

ResultsOf(id) ==
  CASE id = "BMKT_RSP_VERIFY_FAIL" ->
         {"BMKT_SENSOR_STIMULUS_ERROR", "BMKT_FP_NO_MATCH",
          "BMKT_FP_DATABASE_NO_RECORD_EXISTS", "BMKT_GENERAL_ERROR"}
    [] id = "BMKT_RSP_ENROLL_FAIL" -> {"BMKT_FP_DATABASE_FULL", "BMKT_GENERAL_ERROR"}
    [] id = "BMKT_RSP_QUERY_FAIL" -> {"BMKT_FP_DATABASE_EMPTY", "BMKT_GENERAL_ERROR"}
    [] OTHER -> {"BMKT_FP_DATABASE_NO_RECORD_EXISTS", "BMKT_GENERAL_ERROR"}

CancelIds == {"BMKT_RSP_CANCEL_OP_OK", "BMKT_RSP_CANCEL_OP_FAIL"}

\* the first two payload bytes of the general errors the device sends
ErrorPayloads == { << 0, 1 >>, << 1, 2 >> }

\* Frames that end the run or are dropped before an interpreter sees them
EarlyFrames(s) ==
  { Frame(id, s, FALSE) : id \in {"BMKT_RSP_CANCEL_OP_OK", "BMKT_RSP_CANCEL_OP_FAIL"} }
  \cup { [Frame("BMKT_RSP_CAPTURE_COMPLETE", s, FALSE) EXCEPT !.payload_ok = FALSE] }
  \cup { [Frame("none", s, FALSE) EXCEPT !.hdr_ok = FALSE] }

FingerFrames(s, c) ==
  { [Frame("BMKT_EVT_FINGER_REPORT", s, c) EXCEPT !.payload_len = l[1],
                                                  !.payload0 = l[2]] :
      l \in { << 1, 0 >>, << 1, 1 >>, << 1, 2 >>, << 2, 0 >> } }

\* Frames an interpreter gets when their sequence number is not 0
ResponseFrames(w, P, s, c) ==
  LET room == MaxRecords - Len(w.records_sent) IN
  { Frame(id, s, c) : id \in PlainIds(w.ssm_data) \cup {"BMKT_RSP_GENERAL_ERROR"} }
  \cup { [Frame(FailId(w.ssm_data), s, c) EXCEPT !.result = r] :
           r \in ResultsOf(FailId(w.ssm_data)) }
  \cup ( IF w.ssm_data = "enroll_msg_cb"
           THEN { [Frame("BMKT_RSP_ENROLL_REPORT", s, c) EXCEPT !.progress = p] : p \in P }
           ELSE {} )
  \cup ( IF w.ssm_data = "list_msg_cb"
           THEN { [Frame("BMKT_RSP_TEMPLATE_RECORDS_REPORT", s, c) EXCEPT !.templates = ts] :
                    ts \in { t \in TemplateSets : Len(NonEmptyTemplates(t)) <= room } }
           ELSE {} )

\* The frames a reply read can return in state w; enroll reports carry a
\* progress of P, template reports as many records as the bound leaves room
\* for.  The complete flag is read only from frames an interpreter gets.
\* The device acknowledges a cancel command only once one was sent.
Frames(w, P) ==
  LET c0 == w.cmd_seq_num
      nonzero == {c0, OtherSeq(c0)} \ {0}
  IN
  { f \in UNION { EarlyFrames(s) : s \in {0} \cup nonzero } :
      f.msg_id \in CancelIds => w.n_cancels > 0 }
  \cup FingerFrames(0, FALSE)
  \cup { [Frame("BMKT_RSP_GENERAL_ERROR", 0, FALSE) EXCEPT !.payload = b] :
           b \in ErrorPayloads }
  \cup { Frame("BMKT_RSP_CAPTURE_COMPLETE", 0, FALSE) }
  \cup UNION { UNION { FingerFrames(s, c) \cup ResponseFrames(w, P, s, c) :
                       c \in BOOLEAN } : s \in nonzero }

----------------------------------------------------------------------------
\* The actions: one main-loop callback each

Fresh == [World EXCEPT !.progress_events = << >>, !.last_event = NoEvent]

\* state w with transfer t completed
Completed(w, t) == [w EXCEPT !.transfers = @ (-) SetToBag({t})]

InFlightOf(kind) == { t \in BagToSet(transfers) : t.kind = kind }

\* state w when transfer t has completed with fault, "none" for no fault
Arrived(t, fault) ==
  [Completed(Fresh, t) EXCEPT !.last_event.action = action,
                              !.last_event.kind = t.kind,
                              !.last_event.was_armed = cmd_complete_on_removal,
                              !.last_event.fault = fault]

\* The fault a frame carries for the run in state w: the protocol error of
\* a frame whose header, finger report length or payload does not parse.
\* The payload of a finger-off report that ends a deferred run is not read.
FrameFault(w, f) ==
  IF ~f.hdr_ok THEN "proto"
  ELSE IF f.msg_id = "BMKT_EVT_FINGER_REPORT" /\ f.payload_len # 1 THEN "proto"
  ELSE IF f.msg_id = "BMKT_EVT_FINGER_REPORT" /\ f.payload0 # 1
          /\ w.cmd_complete_on_removal THEN "none"
  ELSE IF ~f.payload_ok THEN "proto"
  ELSE "none"

\* how the sequence number of frame f stands to the run in state w
FrameSeq(w, f) ==
  IF f.seq_num = 0 THEN "zero"
  ELSE IF f.seq_num = w.cmd_seq_num THEN "match"
  ELSE "other"

\* what a finger report says: "bad" for a payload length other than 1
FrameFinger(f) ==
  IF f.msg_id # "BMKT_EVT_FINGER_REPORT" THEN "none"
  ELSE IF f.payload_len # 1 THEN "bad"
  ELSE IF f.payload0 = 1 THEN "on"
  ELSE "off"

\* the records with a user id of a template records report, in slot order
RecordsOf(f) ==
  IF f.msg_id = "BMKT_RSP_TEMPLATE_RECORDS_REPORT"
    THEN SelectSeq(f.templates, LAMBDA x : x # 0)
    ELSE << >>

\* state w when the reply read t has returned frame f
Received(t, f) ==
  [Arrived(t, FrameFault(World, f))
     EXCEPT !.records_sent = @ \o RecordsOf(f),
            !.last_event.msg_id = f.msg_id,
            !.last_event.seq = FrameSeq(World, f),
            !.last_event.finger = FrameFinger(f),
            !.last_event.payload = f.payload]

\* the errors transfer t can resolve with; "io" is a timeout, a short
\* transfer or a device I/O failure, which the driver does not tell apart
ErrorsOf(t) ==
  IF t.tok \in cancelled_toks THEN {"cancelled"} ELSE {"io"}

Started(a) ==
  [Fresh EXCEPT !.action = a, !.n_actions = @ + 1, !.n_complete = 0,
                !.n_report = 0, !.run_done = FALSE, !.complete_error = "none",
                !.complete_result = NullList, !.deferred_reported = FALSE,
                !.finger_off_seen = FALSE, !.records_sent = << >>]

CanBegin == ~crashed /\ action = "none" /\ n_actions < MaxActions

BeginList == CanBegin /\ Store(list(Started("list")))

BeginVerify == CanBegin /\ \E valid \in BOOLEAN : Store(verify(Started("verify"), valid))

BeginEnroll == CanBegin /\ Store(enroll(Started("enroll")))

BeginDelete ==
  CanBegin /\ \E valid \in BOOLEAN : Store(delete_print(Started("delete"), valid))

Cancel ==
  /\ ~crashed
  /\ action # "none"
  /\ n_cancels < MaxCancels
  /\ Store(cancel([Fresh EXCEPT !.n_cancels = @ + 1,
                                !.cancel_during_run = @ \/ cmd_ssm,
                                !.last_event.h = "cancel"]))

CmdWriteDone ==
  /\ ~crashed
  /\ \E t \in InFlightOf("cmd_write") : \E error \in {"none"} \cup ErrorsOf(t) :
       Store(fpi_ssm_usb_transfer_cb(Arrived(t, error), error))

AsyncWriteDone ==
  /\ ~crashed
  /\ \E t \in InFlightOf("async_write") : \E error \in {"none"} \cup ErrorsOf(t) :
       Store(fpi_ssm_usb_transfer_cb(Arrived(t, error), error))

ReplyReadOk(P) ==
  /\ ~crashed
  /\ \E t \in InFlightOf("reply_read") : \E f \in Frames(World, P) :
       Store(cmd_recieve_cb(Received(t, f), f, "none"))

ReplyReadFail ==
  /\ ~crashed
  /\ \E t \in InFlightOf("reply_read") : \E error \in ErrorsOf(t) :
       Store(cmd_recieve_cb(Arrived(t, error), Frame("none", 0, FALSE), error))

\* An interrupt read whose cancellable was cancelled resolves as cancelled.
InterruptCancelled ==
  /\ ~crashed
  /\ \E t \in InFlightOf("interrupt") :
       /\ t.tok \in cancelled_toks
       /\ Store(cmd_interrupt_cb(
                  [Arrived(t, "none") EXCEPT !.last_event.cancelled = TRUE],
                  FALSE, "cancelled"))

InterruptData ==
  /\ ~crashed
  /\ \E t \in InFlightOf("interrupt") : \E pending \in BOOLEAN :
       /\ t.tok \notin cancelled_toks
       /\ Store(cmd_interrupt_cb(Arrived(t, "none"), pending, "none"))

InterruptFail ==
  /\ ~crashed
  /\ \E t \in InFlightOf("interrupt") : \E error \in ErrorsOf(t) :
       /\ t.tok \notin cancelled_toks
       /\ Store(cmd_interrupt_cb(Arrived(t, error), FALSE, error))

ForgetWriteDone ==
  /\ ~crashed
  /\ \E t \in InFlightOf("forget_write") : \E error \in {"none"} \cup ErrorsOf(t) :
       Store(cmd_forget_cb(Arrived(t, "none"), error))

SessionInit ==
  /\ cmd_ssm = FALSE
  /\ ssm_cur_state = 0
  /\ ssm_data = "none"
  /\ cmd_pending_transfer = FALSE
  /\ last_seq_num \in InitSeqNums
  /\ cmd_seq_num = last_seq_num
  /\ cmd_complete_on_removal = FALSE
  /\ cmd_complete_error = "none"
  /\ finger_on_sensor = FALSE
  /\ enroll_stage = 0
  /\ list_result = NullList
  /\ interrupt_cancellable = 0
  /\ transfers = EmptyBag
  /\ cancelled_toks = {}
  /\ action = "none"
  /\ n_complete = 0
  /\ complete_error = "none"
  /\ complete_result = NullList
  /\ n_report = 0
  /\ progress_events = << >>
  /\ crashed = FALSE
  /\ assert_failed = "none"
  /\ live_ssm = 0
  /\ run_done = FALSE
  /\ n_actions = 0
  /\ n_cancels = 0
  /\ real_seq_num = last_seq_num
  /\ seq_arg = 0
  /\ prev_seq0 = -1
  /\ last_seq0 = last_seq_num
  /\ wrapped = FALSE
  /\ wrap_since = FALSE
  /\ finger_off_seen = FALSE
  /\ deferred_reported = FALSE
  /\ cancel_during_run = FALSE
  /\ records_sent = << >>
  /\ last_event = NoEvent

\* the session of a device that was probed and opened
Init ==
  /\ SessionInit
  /\ probe = NoProbe
  /\ vdev = NoVdev
  /\ context = NoContext

ReplyRead == ReplyReadOk(ProgressValues)

Next ==
  \/ BeginList
  \/ BeginVerify
  \/ BeginEnroll
  \/ BeginDelete
  \/ Cancel
  \/ CmdWriteDone
  \/ AsyncWriteDone
  \/ ReplyRead
  \/ ReplyReadFail
  \/ InterruptCancelled
  \/ InterruptData
  \/ InterruptFail
  \/ ForgetWriteDone

Spec == Init /\ [][Next]_vars

\* The transfers that resolve whatever the device does: those submitted with
\* a timeout, and an interrupt wait whose cancellable was cancelled.  An
\* interrupt wait with timeout 0 and a live cancellable resolves only when
\* the device answers.
TimedInterruptDone ==
  /\ \E t \in InFlightOf("interrupt") : t.timeout > 0
  /\ (InterruptData \/ InterruptFail)

FairSpec ==
  /\ Spec
  /\ WF_vars(CmdWriteDone)
  /\ WF_vars(AsyncWriteDone)
  /\ WF_vars(ReplyRead \/ ReplyReadFail)
  /\ WF_vars(InterruptCancelled)
  /\ WF_vars(TimedInterruptDone)
  /\ WF_vars(ForgetWriteDone)

\* Enroll sessions in which a report can carry every percentage
ReplyReadAnyProgress == ReplyReadOk(0 .. 100)

NextStages ==
  \/ BeginEnroll
  \/ CmdWriteDone
  \/ AsyncWriteDone
  \/ ReplyReadAnyProgress
  \/ ReplyReadFail
  \/ InterruptData
  \/ InterruptFail

SpecStages == Init /\ [][NextStages]_vars

----------------------------------------------------------------------------
\* dev_probe: the version query and the firmware version check

\* The versions a probed device reports: around 10.1, the oldest supported
\* one, and around its oldest supported build.
ProbeMajors == 9 .. 12
ProbeMinors == 0 .. 2
ProbeBuilds == {2989157, 2989158}

\* What goes wrong in one probe: a libusb call that fails, a reply too short
\* for the status or for the version record, a status other than 0, a serial
\* number string that cannot be read.
ProbeFaults == {"none", "open", "reset", "claim", "write", "read",
                "short_status", "status", "short_version", "serial"}

fpi_device_probe_complete(p, serial, error) ==
  [p EXCEPT !.done = TRUE, !.serial = serial, !.error = error]

\* the version check of dev_probe
firmware_unsupported(v) ==
  \/ v.version_major < 10
  \/ v.version_minor < 1
  \/ (v.version_major = 10 /\ v.version_minor = 1 /\ v.build_num < 2989158)

dev_probe(p, fault) ==
  LET err_close(q, error) ==
        fpi_device_probe_complete([q EXCEPT !.usb_open = FALSE], FALSE, error)
      p0 == [p EXCEPT !.fault = fault]
      p1 == [p0 EXCEPT !.usb_open = TRUE]
      p2 == [p1 EXCEPT !.mis_version = p.firmware]
  IN
  IF fault = "open" THEN fpi_device_probe_complete(p0, FALSE, "usb")
  ELSE IF fault \in {"reset", "claim", "write", "read"} THEN err_close(p1, "usb")
  ELSE IF fault \in {"short_status", "status"} THEN err_close(p1, "proto")
  ELSE IF fault = "short_version" THEN err_close(p2, "proto")
  ELSE IF firmware_unsupported(p2.mis_version) THEN err_close(p2, "general")
  ELSE fpi_device_probe_complete([p2 EXCEPT !.usb_open = FALSE],
                                 fault # "serial",
                                 IF fault = "serial" THEN "usb" ELSE "none")

DevProbe ==
  /\ ~probe.done
  /\ \E fault \in ProbeFaults : probe' = dev_probe(probe, fault)
  /\ UNCHANGED << session_vars, vdev, context >>

InitProbe ==
  /\ SessionInit
  /\ probe \in {[NoProbe EXCEPT !.firmware = v] :
                  v \in [version_major : ProbeMajors,
                         version_minor : ProbeMinors,
                         build_num : ProbeBuilds]}
  /\ vdev = NoVdev
  /\ context = NoContext

SpecProbe == InitProbe /\ [][DevProbe]_vars

----------------------------------------------------------------------------
\* drivers/virtual-device.c: the command queue and the wait for commands

\* Bounds of the virtual device
MaxQueue == 3
MaxVirtualActions == 2

\* the print ids and the error codes the commands of the model carry, and
\* the ids of the prints a verify compares the scan with
PrintIds == {1}
ErrorCodes == {1}
VerifyPrints == {1, 2}

\* g_timeout_add returns an id no earlier source had; the model keeps the
\* ids modulo NSources, enough to tell a timer from the one it replaces.
NSources == 2

INSERT_CMD_PREFIX == "INSERT "
REMOVE_CMD_PREFIX == "REMOVE "
SCAN_CMD_PREFIX == "SCAN "
ERROR_CMD_PREFIX == "ERROR "
LIST_CMD == "LIST"

\* A command line: its prefix and the id or number after it.  A line with
\* none of the prefixes has prefix "".
VirtualCmd(prefix, arg) == [prefix |-> prefix, arg |-> arg]

QueuedCmds ==
  {VirtualCmd(k, a) : k \in {INSERT_CMD_PREFIX, REMOVE_CMD_PREFIX, SCAN_CMD_PREFIX},
                      a \in PrintIds}
  \cup {VirtualCmd(ERROR_CMD_PREFIX, c) : c \in ErrorCodes}
  \cup {VirtualCmd("", 0)}

ReceivedCmds == QueuedCmds \cup {VirtualCmd(LIST_CMD, 0)}

g_str_has_prefix(cmd, prefix) == cmd.prefix = prefix

fpi_device_error_new(code) == [domain |-> "FP_DEVICE_ERROR", code |-> code]

\* what process_cmds hands back: the device, the string returned (0 for
\* NULL) and *error; done tells the loop of process_cmds to return
CmdsResult(self, done, res, error) ==
  [self |-> self, done |-> done, res |-> res, error |-> error]

\* process_cmds_step that looks at scan before INSERT and REMOVE
process_cmds_step_scan_first(self, scan) ==
  LET cmd == Head(self.pending_commands)
      removed == [self EXCEPT !.pending_commands = Tail(@)]
  IN
  IF ~scan
    THEN CmdsResult(self, TRUE, 0, G_IO_ERROR_NOT_FOUND)
  ELSE IF g_str_has_prefix(cmd, INSERT_CMD_PREFIX)
    THEN IF self.storage_null
           THEN CmdsResult([self EXCEPT !.crashed = TRUE], TRUE, 0, NoError)
           ELSE CmdsResult([removed EXCEPT !.prints_storage = @ \cup {cmd.arg}],
                           FALSE, 0, NoError)
  ELSE IF g_str_has_prefix(cmd, REMOVE_CMD_PREFIX)
    THEN IF self.storage_null
           THEN CmdsResult([self EXCEPT !.crashed = TRUE], TRUE, 0, NoError)
           ELSE CmdsResult([removed EXCEPT !.prints_storage = @ \ {cmd.arg}],
                           FALSE, 0, NoError)
  ELSE IF g_str_has_prefix(cmd, SCAN_CMD_PREFIX)
    THEN CmdsResult(removed, TRUE, cmd.arg, NoError)
  ELSE IF g_str_has_prefix(cmd, ERROR_CMD_PREFIX)
    THEN CmdsResult(removed, TRUE, 0, fpi_device_error_new(cmd.arg))
  ELSE CmdsResult(removed, FALSE, 0, NoError)

\* process_cmds_step that stops at a command it does not recognise
process_cmds_step_stops_at_unknown(self, scan) ==
  LET cmd == Head(self.pending_commands)
      removed == [self EXCEPT !.pending_commands = Tail(@)]
  IN
  IF g_str_has_prefix(cmd, INSERT_CMD_PREFIX)
    THEN IF self.storage_null
           THEN CmdsResult([self EXCEPT !.crashed = TRUE], TRUE, 0, NoError)
           ELSE CmdsResult([removed EXCEPT !.prints_storage = @ \cup {cmd.arg}],
                           FALSE, 0, NoError)
  ELSE IF g_str_has_prefix(cmd, REMOVE_CMD_PREFIX)
    THEN IF self.storage_null
           THEN CmdsResult([self EXCEPT !.crashed = TRUE], TRUE, 0, NoError)
           ELSE CmdsResult([removed EXCEPT !.prints_storage = @ \ {cmd.arg}],
                           FALSE, 0, NoError)
  ELSE IF ~scan
    THEN CmdsResult(self, TRUE, 0, G_IO_ERROR_NOT_FOUND)
  ELSE IF g_str_has_prefix(cmd, SCAN_CMD_PREFIX)
    THEN CmdsResult(removed, TRUE, cmd.arg, NoError)
  ELSE IF g_str_has_prefix(cmd, ERROR_CMD_PREFIX)
    THEN CmdsResult(removed, TRUE, 0, fpi_device_error_new(cmd.arg))
  ELSE CmdsResult(removed, TRUE, 0, G_IO_ERROR_NOT_FOUND)

\* One turn of the loop of process_cmds, on the command at index 0.  The
\* break of a call that is not scanning leads to the error after the loop.
process_cmds_step(self, scan) ==
  LET cmd == Head(self.pending_commands)
      removed == [self EXCEPT !.pending_commands = Tail(@)]
  IN
  IF g_str_has_prefix(cmd, INSERT_CMD_PREFIX)
    THEN IF self.storage_null
           THEN CmdsResult([self EXCEPT !.crashed = TRUE], TRUE, 0, NoError)
           ELSE CmdsResult([removed EXCEPT !.prints_storage = @ \cup {cmd.arg}],
                           FALSE, 0, NoError)
  ELSE IF g_str_has_prefix(cmd, REMOVE_CMD_PREFIX)
    THEN IF self.storage_null
           THEN CmdsResult([self EXCEPT !.crashed = TRUE], TRUE, 0, NoError)
           ELSE CmdsResult([removed EXCEPT !.prints_storage = @ \ {cmd.arg}],
                           FALSE, 0, NoError)
  ELSE IF ~scan
    THEN CmdsResult(self, TRUE, 0, G_IO_ERROR_NOT_FOUND)
  ELSE IF g_str_has_prefix(cmd, SCAN_CMD_PREFIX)
    THEN CmdsResult(removed, TRUE, cmd.arg, NoError)
  ELSE IF g_str_has_prefix(cmd, ERROR_CMD_PREFIX)
    THEN CmdsResult(removed, TRUE, 0, fpi_device_error_new(cmd.arg))
  ELSE CmdsResult(removed, FALSE, 0, NoError)

RECURSIVE process_cmds_loop(_, _)
process_cmds_loop(self, scan) ==
  IF Len(self.pending_commands) > 0
    THEN LET r == process_cmds_step(self, scan) IN
         IF r.done THEN r ELSE process_cmds_loop(r.self, scan)
    ELSE CmdsResult(self, TRUE, 0, G_IO_ERROR_NOT_FOUND)

\* process_cmds, with the call put on record
process_cmds(self, scan) ==
  LET r == process_cmds_loop(self, scan) IN
  [r EXCEPT !.self.last.processed = TRUE,
            !.self.last.scan = scan,
            !.self.last.queue = self.pending_commands,
            !.self.last.storage = self.prints_storage,
            !.self.last.res = r.res,
            !.self.last.error = r.error]

\* the timeout sources of the main loop
g_timeout_add(self) ==
  LET id == (self.last_source % NSources) + 1 IN
  [self EXCEPT !.sources = @ \cup {id}, !.last_source = id,
               !.wait_command_id = id]

\* g_clear_handle_id (&self->wait_command_id, g_source_remove)
g_clear_handle_id(self) ==
  [self EXCEPT !.sources = @ \ {self.wait_command_id},
               !.wait_command_id = 0,
               !.last.cleared = self.wait_command_id]

\* the value returned is field ret
should_wait_for_command(self, error) ==
  IF ~g_error_matches(error, G_IO_ERROR_NOT_FOUND)
    THEN [self |-> self, ret |-> FALSE]
  ELSE IF self.wait_command_id # 0
    THEN [self |-> self, ret |-> FALSE]
  ELSE [self |-> [g_timeout_add(self) EXCEPT !.last.waits = TRUE], ret |-> TRUE]

\* fpi_device_verify_complete, fpi_device_enroll_complete and
\* fpi_device_action_error: the current action is over
fpi_virtual_complete(self, id, error) ==
  [self EXCEPT !.current_action = "none", !.n_complete = @ + 1,
               !.complete_id = id, !.complete_error = error]

fpi_device_action_error(self, error) ==
  IF self.current_action = "none" THEN self
  ELSE fpi_virtual_complete(self, 0, error)

dev_verify(self) ==
  LET r == process_cmds(self, TRUE)
      sw == should_wait_for_command(r.self, r.error)
  IN
  IF r.self.crashed THEN r.self
  ELSE IF sw.ret THEN sw.self
  ELSE IF r.res # 0
    THEN fpi_virtual_complete(
           [sw.self EXCEPT !.n_report = @ + 1,
                           !.match = IF self.verify_print = r.res
                                       THEN "success" ELSE "fail"],
           0, r.error)
  ELSE fpi_virtual_complete(sw.self, 0, r.error)

dev_enroll(self) ==
  LET r == process_cmds(self, TRUE)
      sw == should_wait_for_command(r.self, r.error)
  IN
  IF r.self.crashed THEN r.self
  ELSE IF sw.ret THEN sw.self
  ELSE IF r.res # 0
    THEN fpi_virtual_complete(
           [sw.self EXCEPT !.prints_storage =
                             IF self.storage_null THEN @ ELSE @ \cup {r.res}],
           r.res, NoError)
  ELSE fpi_virtual_complete(sw.self, 0, r.error)

wait_for_command_timeout(self) ==
  fpi_device_action_error([self EXCEPT !.wait_command_id = 0],
                          G_IO_ERROR_TIMED_OUT)

\* recv_instruction_cb that runs the action again with the timer still armed
recv_instruction_cb_keeps_timer(self, fault, cmd) ==
  IF fault # "none" THEN self
  ELSE IF g_str_has_prefix(cmd, LIST_CMD) THEN self
  ELSE LET q == [self EXCEPT !.pending_commands = Append(@, cmd)] IN
       IF q.current_action = "enroll"
         THEN dev_enroll([q EXCEPT !.last.rerun = "enroll"])
       ELSE IF q.current_action = "verify"
         THEN dev_verify([q EXCEPT !.last.rerun = "verify"])
       ELSE q

\* fault tells how the read ended: with an error, with no bytes, or with
\* the line cmd
recv_instruction_cb(self, fault, cmd) ==
  IF fault # "none" THEN self
  ELSE IF g_str_has_prefix(cmd, LIST_CMD) THEN self
  ELSE LET q == g_clear_handle_id(
                  [self EXCEPT !.pending_commands = Append(@, cmd)])
       IN
       IF q.current_action = "enroll"
         THEN dev_enroll([q EXCEPT !.last.rerun = "enroll"])
       ELSE IF q.current_action = "verify"
         THEN dev_verify([q EXCEPT !.last.rerun = "verify"])
       ELSE q

\* A failed g_assert aborts the process, as in Store.
StoreVirtual(v) ==
  /\ vdev' = IF v.crashed THEN [vdev EXCEPT !.crashed = TRUE] ELSE v
  /\ UNCHANGED << session_vars, probe, context >>

\* the device as a handler finds it
ArrivedVirtual(h) ==
  [vdev EXCEPT !.last = [NoVirtualEvent EXCEPT !.h = h,
                                               !.action = vdev.current_action,
                                               !.n_complete = vdev.n_complete]]

StartedVirtual(h, a) ==
  [ArrivedVirtual(h) EXCEPT !.current_action = a, !.n_actions = @ + 1,
                            !.n_complete = 0, !.n_report = 0,
                            !.match = "none", !.complete_id = 0,
                            !.complete_error = NoError, !.verify_print = 0,
                            !.last.n_complete = 0]

DevVerify ==
  /\ ~vdev.crashed
  /\ vdev.current_action = "none"
  /\ vdev.n_actions < MaxVirtualActions
  /\ \E print \in VerifyPrints :
       StoreVirtual(dev_verify([StartedVirtual("dev_verify", "verify")
                                  EXCEPT !.verify_print = print]))

DevEnroll ==
  /\ ~vdev.crashed
  /\ vdev.current_action = "none"
  /\ vdev.n_actions < MaxVirtualActions
  /\ StoreVirtual(dev_enroll(StartedVirtual("dev_enroll", "enroll")))

\* a caller outside the file runs process_cmds without scanning
ProcessCmdsNoScan ==
  /\ ~vdev.crashed
  /\ vdev.current_action = "none"
  /\ StoreVirtual(process_cmds(ArrivedVirtual("process_cmds"), FALSE).self)

RecvInstruction ==
  /\ ~vdev.crashed
  /\ Len(vdev.pending_commands) < MaxQueue
  /\ \E fault \in {"none", "error", "cancelled"} : \E cmd \in ReceivedCmds :
       StoreVirtual(recv_instruction_cb(
                      [ArrivedVirtual("recv_instruction_cb")
                         EXCEPT !.last.cmd = IF fault = "none" THEN cmd.prefix
                                             ELSE fault],
                      fault, cmd))

WaitTimeout(id) ==
  /\ ~vdev.crashed
  /\ id \in vdev.sources
  /\ StoreVirtual(wait_for_command_timeout(
                    [ArrivedVirtual("wait_for_command_timeout")
                       EXCEPT !.sources = @ \ {id}, !.last.timer = id]))

\* a device with no storage, and one whose prints_storage was created
InitVirtual ==
  /\ SessionInit
  /\ last_seq_num = 1
  /\ probe = NoProbe
  /\ vdev \in {[NoVdev EXCEPT !.storage_null = b] : b \in BOOLEAN}
  /\ context = NoContext

NextVirtual ==
  \/ DevVerify
  \/ DevEnroll
  \/ ProcessCmdsNoScan
  \/ RecvInstruction
  \/ \E id \in 1 .. NSources : WaitTimeout(id)

SpecVirtual == InitVirtual /\ [][NextVirtual]_vars

\* a timeout source that stays in the main loop is dispatched
FairSpecVirtual ==
  /\ SpecVirtual
  /\ \A id \in 1 .. NSources : WF_vars(WaitTimeout(id))

----------------------------------------------------------------------------
\* fp-context.c: the choice of a driver and the enumeration

\* Bounds of the context
MaxInits == 2
MaxCalls == 2

\* FpIdEntry: the ids of a USB entry or the variable of a virtual one.  The
\* entry whose pid reads 0 ends a table.
IdEntry(vid, pid) == [vid |-> vid, pid |-> pid, virtual_envvar |-> "none"]
VirtualEntry(envvar) == [vid |-> 0, pid |-> 1, virtual_envvar |-> envvar]
EndEntry == [vid |-> 0, pid |-> 0, virtual_envvar |-> "none"]

\* the USB devices of the model: two that share the vid
UsbDevices == {[vid |-> 1, pid |-> 1], [vid |-> 1, pid |-> 2]}

\* the id tables of its USB drivers; the third has an entry with the pid
\* of a device and another vid
IdTables ==
  { << IdEntry(1, 1), EndEntry >>,
    << IdEntry(1, 2), EndEntry >>,
    << IdEntry(2, 1), IdEntry(1, 1), EndEntry >> }

\* what usb_discover returns
Scores == {-1, 0, 20, 50, 80}

FP_DEVICE_TYPE_VIRTUAL == 0
FP_DEVICE_TYPE_USB == 1

\* FpDeviceClass: usb_discover tells whether the class has the function
DeviceClass(type, id_table, usb_discover) ==
  [type |-> type, id_table |-> id_table, usb_discover |-> usb_discover]

\* the driver tables of the model: a USB driver, the virtual driver and a
\* second USB driver, in the order they are registered
DriverTables ==
  { << DeviceClass(FP_DEVICE_TYPE_USB, t1, d1),
       DeviceClass(FP_DEVICE_TYPE_VIRTUAL,
                   << VirtualEntry("FP_VIRTUAL_DEVICE"), EndEntry >>, FALSE),
       DeviceClass(FP_DEVICE_TYPE_USB, t2, d2) >> :
      t1 \in IdTables, t2 \in IdTables, d1 \in BOOLEAN, d2 \in BOOLEAN }

NotFound == [score |-> 0, driver |-> 0, entry |-> 0]

\* what the usb_discover functions of the three drivers may return for one
\* device; a driver without the function has 50 in its place
DiscoverScores(drivers) ==
  { << a, b, c >> :
      a \in (IF drivers[1].usb_discover THEN Scores ELSE {50}),
      b \in (IF drivers[2].usb_discover THEN Scores ELSE {50}),
      c \in (IF drivers[3].usb_discover THEN Scores ELSE {50}) }

\* the score of driver i for the device: 50, or what its usb_discover returns
driver_score(drivers, i, scores) ==
  IF drivers[i].usb_discover THEN scores[i] ELSE 50

\* usb_device_added_cb_entries in which a driver as good as the one found
\* replaces it
RECURSIVE usb_device_added_cb_entries_ties_replace(_, _, _, _, _, _)
usb_device_added_cb_entries_ties_replace(drivers, i, entry, device, scores, found) ==
  LET e == drivers[i].id_table[entry] IN
  IF e.pid = 0 THEN found
  ELSE IF e.pid # device.pid \/ e.vid # device.vid
    THEN usb_device_added_cb_entries_ties_replace(drivers, i, entry + 1, device,
                                                  scores, found)
  ELSE IF driver_score(drivers, i, scores) < found.score
    THEN usb_device_added_cb_entries_ties_replace(drivers, i, entry + 1, device,
                                                  scores, found)
  ELSE usb_device_added_cb_entries_ties_replace(
         drivers, i, entry + 1, device, scores,
         [score |-> driver_score(drivers, i, scores), driver |-> i,
          entry |-> entry])

\* the loop of usb_device_added_cb over the id_table of driver i, from entry
RECURSIVE usb_device_added_cb_entries(_, _, _, _, _, _)
usb_device_added_cb_entries(drivers, i, entry, device, scores, found) ==
  LET e == drivers[i].id_table[entry] IN
  IF e.pid = 0 THEN found
  ELSE IF e.pid # device.pid \/ e.vid # device.vid
    THEN usb_device_added_cb_entries(drivers, i, entry + 1, device, scores, found)
  ELSE IF driver_score(drivers, i, scores) <= found.score
    THEN usb_device_added_cb_entries(drivers, i, entry + 1, device, scores, found)
  ELSE usb_device_added_cb_entries(
         drivers, i, entry + 1, device, scores,
         [score |-> driver_score(drivers, i, scores), driver |-> i,
          entry |-> entry])

\* its loop over the drivers, from driver i
RECURSIVE usb_device_added_cb_drivers(_, _, _, _, _)
usb_device_added_cb_drivers(drivers, i, device, scores, found) ==
  IF i > Len(drivers) THEN found
  ELSE IF drivers[i].type # FP_DEVICE_TYPE_USB
    THEN usb_device_added_cb_drivers(drivers, i + 1, device, scores, found)
  ELSE usb_device_added_cb_drivers(
         drivers, i + 1, device, scores,
         usb_device_added_cb_entries(drivers, i, 1, device, scores, found))

\* g_async_initable_new_async: the initialisation runs in the main loop
g_async_initable_new_async(ctx, driver, device) ==
  [ctx EXCEPT !.inits = Append(@, [driver |-> driver, device |-> device]),
              !.n_started = @ + 1,
              !.last.started = @ + 1]

usb_device_added_cb(ctx, device, scores) ==
  LET found == usb_device_added_cb_drivers(ctx.drivers, 1, device, scores, NotFound)
      c == [ctx EXCEPT !.last.device = device,
                       !.last.scores = [i \in 1 .. Len(ctx.drivers) |->
                                          driver_score(ctx.drivers, i, scores)],
                       !.last.driver = found.driver]
  IN
  IF found.driver = 0 THEN c
  ELSE g_async_initable_new_async([c EXCEPT !.pending_devices = @ + 1,
                                            !.last.usb_started = @ + 1],
                                  found.driver, device)

usb_device_removed_cb(ctx, device) ==
  LET at == {i \in 1 .. Len(ctx.devices) : ctx.devices[i].device = device} IN
  IF at = {} THEN ctx
  ELSE LET i == CHOOSE k \in at : \A l \in at : k <= l
           n == Len(ctx.devices)
       IN \* g_ptr_array_remove_index_fast: the last element takes the place
          [ctx EXCEPT !.devices =
             IF i = n THEN SubSeq(@, 1, n - 1)
             ELSE [k \in 1 .. n - 1 |-> IF k = i THEN @[n] ELSE @[k]]]

\* outcome is how g_async_initable_new_finish ends
async_device_init_done_cb(ctx, init, outcome) ==
  IF outcome = "cancelled"
    THEN ctx
  ELSE IF outcome = "error"
    THEN [ctx EXCEPT !.pending_devices = @ - 1]
  ELSE [ctx EXCEPT !.pending_devices = @ - 1,
                   !.devices = Append(@, init)]

\* the loop of fp_context_enumerate over the id_table of virtual driver i
RECURSIVE fp_context_enumerate_entries(_, _, _)
fp_context_enumerate_entries(ctx, i, entry) ==
  LET e == ctx.drivers[i].id_table[entry] IN
  IF e.pid = 0 THEN ctx
  ELSE IF e.virtual_envvar \notin ctx.environ
    THEN fp_context_enumerate_entries(ctx, i, entry + 1)
  ELSE fp_context_enumerate_entries(
         g_async_initable_new_async([ctx EXCEPT !.pending_devices = @ + 1],
                                    i, [vid |-> 0, pid |-> 0]),
         i, entry + 1)

\* its loop over the drivers, from driver i
RECURSIVE fp_context_enumerate_drivers(_, _)
fp_context_enumerate_drivers(ctx, i) ==
  IF i > Len(ctx.drivers) THEN ctx
  ELSE IF ctx.drivers[i].type # FP_DEVICE_TYPE_VIRTUAL
    THEN fp_context_enumerate_drivers(ctx, i + 1)
  ELSE fp_context_enumerate_drivers(fp_context_enumerate_entries(ctx, i, 1), i + 1)

\* g_usb_context_enumerate emits device-added for the devices plugged in
RECURSIVE g_usb_context_enumerate(_, _, _)
g_usb_context_enumerate(ctx, plugged, scores) ==
  IF plugged = << >> THEN ctx
  ELSE g_usb_context_enumerate(usb_device_added_cb(ctx, Head(plugged), scores),
                               Tail(plugged), scores)

\* fp_context_enumerate up to its loop on pending_devices, which the main
\* loop ends: enumerating tells that the call has not returned
fp_context_enumerate(ctx, plugged, scores) ==
  IF ctx.enumerated THEN ctx
  ELSE LET c1 == [ctx EXCEPT !.enumerated = TRUE]
           c2 == g_usb_context_enumerate(c1, plugged, scores)
           c3 == fp_context_enumerate_drivers(c2, 1)
       IN [c3 EXCEPT !.enumerating = (c3.pending_devices # 0)]

StoreContext(c) ==
  /\ context' = c
  /\ UNCHANGED << session_vars, probe, vdev >>

ArrivedContext(h) ==
  [context EXCEPT !.last = [NoContextEvent EXCEPT
                              !.h = h, !.was_enumerated = context.enumerated]]

\* fp_context_enumerate, called directly or by fp_context_get_devices
Enumerate ==
  /\ context.n_calls < MaxCalls
  /\ \E plugged \in {<< >>} \cup {<< d >> : d \in UsbDevices} :
     \E scores \in DiscoverScores(context.drivers) :
       StoreContext(fp_context_enumerate(
                      [ArrivedContext("fp_context_enumerate")
                         EXCEPT !.n_calls = @ + 1],
                      plugged, scores))

\* the loop of fp_context_enumerate finds pending_devices 0
EnumerateReturn ==
  /\ context.enumerating
  /\ context.pending_devices = 0
  /\ StoreContext([ArrivedContext("fp_context_enumerate_return")
                     EXCEPT !.enumerating = FALSE])

\* a device is plugged in while the main loop runs
UsbDeviceAdded ==
  /\ context.enumerated
  /\ context.n_started < MaxInits
  /\ \E device \in UsbDevices :
     \E scores \in DiscoverScores(context.drivers) :
       StoreContext(usb_device_added_cb(ArrivedContext("usb_device_added_cb"),
                                        device, scores))

UsbDeviceRemoved ==
  /\ context.enumerated
  /\ \E device \in UsbDevices :
       /\ \E i \in 1 .. Len(context.devices) : context.devices[i].device = device
       /\ StoreContext(usb_device_removed_cb(
                         ArrivedContext("usb_device_removed_cb"), device))

\* the main loop runs the callback of an initialisation that has ended
InitDone ==
  \E i \in 1 .. Len(context.inits) :
  \E outcome \in {"success", "error", "cancelled"} :
    StoreContext(async_device_init_done_cb(
                   [ArrivedContext("async_device_init_done_cb")
                      EXCEPT !.inits = SubSeq(@, 1, i - 1)
                                         \o SubSeq(@, i + 1, Len(@)),
                             !.n_finished = @ + 1,
                             !.last.outcome = outcome],
                   context.inits[i], outcome))

InitContext ==
  /\ SessionInit
  /\ last_seq_num = 1
  /\ probe = NoProbe
  /\ vdev = NoVdev
  /\ context \in {[NoContext EXCEPT !.drivers = t, !.environ = e] :
                     t \in DriverTables,
                     e \in {{}, {"FP_VIRTUAL_DEVICE"}}}

NextContext ==
  \/ Enumerate
  \/ EnumerateReturn
  \/ UsbDeviceAdded
  \/ UsbDeviceRemoved
  \/ InitDone

SpecContext == InitContext /\ [][NextContext]_vars

----------------------------------------------------------------------------
TypeOK ==
  /\ cmd_ssm \in BOOLEAN
  /\ ssm_cur_state \in 0 .. SYNAPTICS_CMD_NUM_STATES - 1
  /\ last_seq_num \in 0 .. SeqMod - 1
  /\ cmd_seq_num \in 0 .. SeqMod - 1
  /\ enroll_stage \in 0 .. ENROLL_SAMPLES
  /\ n_complete \in 0 .. MaxComplete

\* transfers of the command state machine in flight
RunInFlight ==
  BagCardinality([t \in { u \in BagToSet(transfers) : u.kind # "forget_write" }
                    |-> CopiesIn(t, transfers)])

ForgetInFlight == BagCardinality(transfers) - RunInFlight

----------------------------------------------------------------------------
\* C1: every action started through list, verify, enroll or delete_print gets
\* its fpi_device_*_complete exactly once: never a second call, and the call
\* has been made by the time cmd_ssm_done ran.
C1_CompleteExactlyOnce ==
  /\ n_complete <= 1
  /\ (run_done => n_complete = 1)

\* C2: after cancel() was called while a run is active, the run ends.
C2_CancelEndsRun == (cancel_during_run /\ cmd_ssm) ~> ~cmd_ssm

\* C3 as stated: at most one transfer is in flight, the fire-and-forget
\* write of seq_num -1 counted.
C3_OneTransferInFlight == BagCardinality(transfers) <= 1

\* C3: at most one transfer of the command state machine is in flight; the
\* fire-and-forget writes, one per cancel(), are in flight next to it.
C3_OneRunTransferInFlight ==
  /\ RunInFlight <= 1
  /\ ForgetInFlight <= n_cancels
  /\ (RunInFlight = 1 <=> cmd_ssm)

C3_Witness == RunInFlight = 1 /\ ForgetInFlight = 1

\* C4: at most one command state machine is alive, and cmd_ssm points to it:
\* cmd_ssm is set exactly while a machine that was started has not ended.
C4_OneStateMachine ==
  /\ live_ssm <= 1
  /\ (cmd_ssm <=> live_ssm = 1)

C4_Witness == cmd_ssm /\ live_ssm = 1 /\ n_actions = 2 /\ ~crashed

\* C5 as stated: the frame values of consecutive seq_num-0 calls are
\* strictly increasing.
C5_Seq0StrictlyIncreasing == prev_seq0 # -1 => last_seq0 > prev_seq0

\* C5: they are strictly increasing as long as no call from the one to the
\* next had to go past 255.
C5_Seq0IncreasingUntilWrap ==
  (prev_seq0 # -1 /\ ~wrapped) => last_seq0 > prev_seq0

C5_Witness ==
  prev_seq0 # -1 /\ ~wrapped /\ last_seq0 = prev_seq0 + 2 /\ n_actions = 2

\* C6 as stated: a seq_num -1 call (cancel) leaves last_seq_num as it was.
C6_CancelKeepsLastSeqNum ==
  [][n_cancels' # n_cancels => last_seq_num' = last_seq_num]_vars

\* C6: a seq_num -1 call leaves cmd_seq_num as it was; it advances
\* last_seq_num by one modulo 256 and writes that value to its frame.
C6_CancelKeepsCmdSeqNum ==
  [][n_cancels' # n_cancels =>
       /\ cmd_seq_num' = cmd_seq_num
       /\ last_seq_num' = (last_seq_num + 1) % SeqMod
       /\ real_seq_num' = last_seq_num']_vars

C6_Witness ==
  seq_arg = -1 /\ n_cancels = 1 /\ last_seq_num = cmd_seq_num + 1
  /\ real_seq_num = last_seq_num

\* C7 as stated: last_seq_num never decreases.
C7_LastSeqNumMonotonic == [][last_seq_num' >= last_seq_num]_vars

\* C7: last_seq_num decreases only when it wraps from 255 to 0 in a call
\* with seq_num 0 or -1, or when a call with a positive seq_num, the
\* continuation of the current command, stores cmd_seq_num in it.
C7_LastSeqNumDecreases ==
  [][last_seq_num' < last_seq_num =>
       \/ seq_arg' <= 0 /\ last_seq_num = SeqMod - 1 /\ last_seq_num' = 0
       \/ seq_arg' > 0 /\ seq_arg' = cmd_seq_num /\ last_seq_num' = cmd_seq_num]_vars

C7_Witness ==
  /\ seq_arg > 0 /\ n_actions = 1 /\ n_cancels = 1
  /\ last_seq_num = cmd_seq_num /\ last_seq0 = cmd_seq_num

\* C8 as stated: a response with complete false handed to the interpreter
\* leaves the run in Wait-Interrupt.
C8_IncompleteLeadsToWait ==
  (last_event.h = "cmd_recieve_cb" /\ last_event.called /\ ~last_event.complete)
    => (cmd_ssm /\ ssm_cur_state = SYNAPTICS_CMD_WAIT_INTERRUPT)

\* C8: such a response never ends the run; the run is in Wait-Interrupt
\* with the interrupt wait in flight, unless the interpreter queued a
\* command: then the run is in Send-Pending with that command being written.
C8_IncompleteNeverCompletes ==
  (last_event.h = "cmd_recieve_cb" /\ last_event.called /\ ~last_event.complete)
    => /\ cmd_ssm
       /\ ~run_done
       /\ IF last_event.queued
            THEN /\ ssm_cur_state = SYNAPTICS_CMD_SEND_PENDING
                 /\ InFlightOf("cmd_write") # {}
            ELSE /\ ssm_cur_state = SYNAPTICS_CMD_WAIT_INTERRUPT
                 /\ InFlightOf("interrupt") # {}

C8_Witness ==
  /\ last_event.h = "cmd_recieve_cb" /\ last_event.called /\ ~last_event.complete
  /\ ~last_event.queued /\ ~last_event.armed
  /\ ssm_cur_state = SYNAPTICS_CMD_WAIT_INTERRUPT /\ ~crashed

\* C9: the deferred result of a verify is reported only after a finger-off
\* report was processed since the result was deferred.
C9_DeferredAfterFingerOff == deferred_reported => finger_off_seen

C9_Witness ==
  deferred_reported /\ finger_off_seen /\ n_complete = 1 /\ complete_error = "retry"

\* C10: the stages an enroll report credits are ceil(p * N / 100), limited
\* to N - 1 while p < 100, and N for p = 100.
CeilDiv(a, b) == CHOOSE k \in 0 .. a : k * b >= a /\ (k - 1) * b < a

CreditedStages(p) ==
  IF p = 100 THEN ENROLL_SAMPLES
  ELSE Min(CeilDiv(p * ENROLL_SAMPLES, 100), ENROLL_SAMPLES - 1)

C10_DoneStages ==
  last_event.report => last_event.done_stages = CreditedStages(last_event.progress)

C10_Witness ==
  last_event.report /\ last_event.progress = 90 /\ last_event.done_stages = 4

----------------------------------------------------------------------------
\* C11 as stated: while an enroll action runs, enroll_stage never decreases,
\* and it passes N - 1 only in a report with progress 100.
C11_StageNeverDecreases ==
  [][(action = "enroll" /\ action' = "enroll") =>
       /\ enroll_stage' >= enroll_stage
       /\ (enroll_stage' > ENROLL_SAMPLES - 1 /\ enroll_stage <= ENROLL_SAMPLES - 1)
            => (last_event'.report /\ last_event'.progress = 100)]_vars

\* C11: while an enroll action runs, enroll_stage decreases only when a
\* ready notice sets it to 0; no other response lowers it, and only a report
\* with progress 100 takes it past N - 1.
C11_StageDecreasesOnReady ==
  [][(action = "enroll" /\ action' = "enroll") =>
       /\ enroll_stage' < enroll_stage =>
            (last_event'.id = "BMKT_RSP_ENROLL_READY" /\ enroll_stage' = 0)
       /\ (enroll_stage' > ENROLL_SAMPLES - 1 /\ enroll_stage <= ENROLL_SAMPLES - 1)
            => (last_event'.report /\ last_event'.progress = 100)]_vars

\* a ready notice in the middle of a session took the stage from N - 1 to 0
C11_Witness ==
  /\ action = "enroll" /\ last_event.id = "BMKT_RSP_ENROLL_READY"
  /\ last_event.stage_before = ENROLL_SAMPLES - 1 /\ enroll_stage = 0

\* C12: an enroll report is answered by one progress event without error for
\* each stage it newly credits, with consecutive stage numbers, and by one
\* retry event when it credits no new stage, whatever its percentage.
C12_OneEventPerStage ==
  last_event.report =>
    LET k == enroll_stage - last_event.stage_before IN
    IF k = 0
      THEN /\ Len(progress_events) = 1
           /\ progress_events[1].retry
      ELSE /\ Len(progress_events) = k
           /\ \A i \in 1 .. k :
                progress_events[i] =
                  [stage |-> last_event.stage_before + i, retry |-> FALSE]

\* C13: in a list action the query-complete response completes the list
\* once, without error, with the records of the template reports the device
\* sent, in the order sent; and each template report is answered by one
\* get-next-query command, written by the same run.
C13_ListResults ==
  /\ (last_event.called /\ last_event.action = "list"
        /\ last_event.id = "BMKT_RSP_QUERY_RESPONSE_COMPLETE")
       => /\ n_complete = 1
          /\ action = "none"
          /\ complete_error = "none"
          /\ ~complete_result.isnull
          /\ complete_result.prints = records_sent
  /\ (last_event.called /\ last_event.action = "list"
        /\ last_event.id = "BMKT_RSP_TEMPLATE_RECORDS_REPORT")
       => /\ n_complete = 0
          /\ last_event.cmd = "BMKT_CMD_GET_NEXT_QUERY_RESPONSE"
          /\ cmd_ssm /\ live_ssm = 1 /\ ~run_done
          /\ last_event.entered = {Entered(SYNAPTICS_CMD_SEND_PENDING, "jump")}
          /\ ssm_cur_state = SYNAPTICS_CMD_SEND_PENDING
          /\ ~cmd_pending_transfer
          /\ RunInFlight = 1
          /\ \A t \in BagToSet(transfers) :
               t.kind # "forget_write" => t.kind = "cmd_write"

\* two records in two report frames, then query complete
C13_Witness ==
  /\ last_event.called /\ last_event.action = "list"
  /\ last_event.id = "BMKT_RSP_QUERY_RESPONSE_COMPLETE"
  /\ records_sent = << 1, 2 >> /\ complete_result.prints = << 1, 2 >>
  /\ n_complete = 1 /\ ~crashed

\* a frame of the reply endpoint with sequence number s
WithSeq(f, s) == [f EXCEPT !.seq_num = s]

\* C14: a response whose sequence number is neither 0 nor cmd_seq_num is
\* handed to the interpreter and does not fail the run; what cmd_recieve_cb
\* does with it is what it does with the same response carrying cmd_seq_num,
\* but for the warning.
C14_SeqMismatchTolerated ==
  /\ last_event.mismatch => (last_event.called /\ last_event.ended # "failed")
  /\ \A t \in InFlightOf("reply_read") : \A f \in Frames(World, ProgressValues) :
       (~crashed /\ cmd_seq_num # 0 /\ f.seq_num \notin {0, cmd_seq_num}) =>
         LET r == cmd_recieve_cb(Arrived(t, FrameFault(World, f)), f, "none")
             m == cmd_recieve_cb(Arrived(t, FrameFault(World, f)),
                                 WithSeq(f, cmd_seq_num), "none")
         IN [r EXCEPT !.last_event.mismatch = FALSE] = m

C14_Witness ==
  /\ last_event.mismatch /\ last_event.called /\ last_event.complete
  /\ last_event.ended = "completed" /\ n_complete = 1 /\ complete_error = "none"

\* C15: a transfer error or a parse error met by the run fails the run, and
\* cmd_ssm_done calls the interpreter once, with that error and no response,
\* which completes the action with the error.
C15_FaultsFailRun ==
  last_event.fault # "none" =>
    /\ last_event.ended = "failed"
    /\ ~cmd_ssm /\ run_done
    /\ ~last_event.called
    /\ last_event.cb_null = 1
    /\ last_event.cb_error = last_event.fault
    /\ n_complete >= 1
    /\ complete_error = last_event.fault

C15_Witness ==
  /\ last_event.h = "cmd_recieve_cb" /\ last_event.fault = "proto"
  /\ last_event.cb_null = 1 /\ complete_error = "proto" /\ n_complete = 1

\* C16: in a list action a query-fail response with database empty
\* completes the list without error, with the records sent so far; with
\* another result, and when the run failed, the list is completed with an
\* error and no records.
C16_QueryFail ==
  /\ (last_event.called /\ last_event.action = "list"
        /\ last_event.id = "BMKT_RSP_QUERY_FAIL")
       => /\ n_complete = 1
          /\ IF last_event.result = "BMKT_FP_DATABASE_EMPTY"
               THEN /\ complete_error = "none"
                    /\ ~complete_result.isnull
                    /\ complete_result.prints = records_sent
               ELSE /\ complete_error # "none"
                    /\ complete_result.isnull
  /\ (last_event.ended = "failed" /\ last_event.action = "list")
       => /\ n_complete = 1
          /\ complete_error # "none"
          /\ complete_error = last_event.cb_error
          /\ complete_result.isnull

C16_Witness ==
  /\ last_event.called /\ last_event.action = "list"
  /\ last_event.id = "BMKT_RSP_QUERY_FAIL"
  /\ last_event.result = "BMKT_FP_DATABASE_EMPTY"
  /\ complete_error = "none" /\ complete_result.prints = << 1 >>

\* C17: after the interpreter returned, a queued command sends the run to
\* Send-Pending whatever the response says; without one, an incomplete
\* response or an armed deferred completion sends it to Wait-Interrupt;
\* otherwise the run is completed.
C17_NextStepPriority ==
  last_event.called =>
    IF last_event.queued
      THEN /\ cmd_ssm /\ last_event.ended = "none"
           /\ last_event.entered = {Entered(SYNAPTICS_CMD_SEND_PENDING, "jump")}
           /\ ssm_cur_state = SYNAPTICS_CMD_SEND_PENDING
           /\ InFlightOf("cmd_write") # {}
    ELSE IF ~last_event.complete \/ last_event.armed
      THEN /\ cmd_ssm /\ last_event.ended = "none"
           /\ last_event.entered = {Entered(SYNAPTICS_CMD_WAIT_INTERRUPT, "next")}
           /\ ssm_cur_state = SYNAPTICS_CMD_WAIT_INTERRUPT
           /\ InFlightOf("interrupt") # {}
    ELSE /\ ~cmd_ssm /\ run_done
         /\ last_event.ended = "completed"
         /\ last_event.entered = {}

\* a complete response after which the interpreter queued a command
C17_Witness ==
  /\ last_event.called /\ last_event.queued /\ last_event.complete
  /\ ssm_cur_state = SYNAPTICS_CMD_SEND_PENDING /\ InFlightOf("cmd_write") # {}

\* C18 as stated: interrupt data with the pending bit takes the run to
\* Get-Response, the reply read being the next transfer it submits.
C18_PendingLeadsToGetResp ==
  (last_event.h = "cmd_interrupt_cb" /\ last_event.pending) =>
    /\ ssm_cur_state = SYNAPTICS_CMD_GET_RESP
    /\ InFlightOf("reply_read") # {}

\* C18: interrupt data with the pending bit advances the run to Send-Async,
\* whose write is the next transfer; when that write has completed the run
\* passes Restart and Send-Pending and submits the reply read in
\* Get-Response.
C18_PendingLeadsToSendAsync ==
  /\ (last_event.h = "cmd_interrupt_cb" /\ last_event.pending) =>
       /\ cmd_ssm /\ last_event.ended = "none"
       /\ last_event.entered = {Entered(SYNAPTICS_CMD_SEND_ASYNC, "next")}
       /\ ssm_cur_state = SYNAPTICS_CMD_SEND_ASYNC
       /\ InFlightOf("async_write") # {}
       /\ InFlightOf("reply_read") = {}
  /\ (last_event.h = "fpi_ssm_usb_transfer_cb" /\ last_event.kind = "async_write"
        /\ last_event.fault = "none") =>
       /\ cmd_ssm /\ last_event.ended = "none"
       /\ ssm_cur_state = SYNAPTICS_CMD_GET_RESP
       /\ InFlightOf("reply_read") # {}
       /\ InFlightOf("cmd_write") = {}

C18_Witness ==
  /\ last_event.h = "cmd_interrupt_cb" /\ last_event.pending
  /\ ssm_cur_state = SYNAPTICS_CMD_SEND_ASYNC /\ InFlightOf("async_write") # {}

\* C19 as stated: Send-Async and Restart are entered by a jump only.
C19_AuxStatesOnlyByJump ==
  \A e \in last_event.entered :
    e.state \in {SYNAPTICS_CMD_SEND_ASYNC, SYNAPTICS_CMD_RESTART} => e.by = "jump"

\* C19: Send-Async and Restart are entered by next-state advancement only,
\* Send-Async from Wait-Interrupt in cmd_interrupt_cb on the pending bit,
\* Restart from Send-Async when its write has completed; jumps go to
\* Send-Pending and to Get-Response only.
C19_AuxStatesByAdvance ==
  \A e \in last_event.entered :
    /\ e.state = SYNAPTICS_CMD_SEND_ASYNC =>
         (e.by = "next" /\ last_event.h = "cmd_interrupt_cb" /\ last_event.pending)
    /\ e.state = SYNAPTICS_CMD_RESTART =>
         /\ e.by = "next"
         /\ last_event.h = "fpi_ssm_usb_transfer_cb"
         /\ last_event.kind = "async_write"
    /\ e.by = "jump" =>
         e.state \in {SYNAPTICS_CMD_SEND_PENDING, SYNAPTICS_CMD_GET_RESP}

\* the Send-Async write has completed: Restart was entered by advancement
\* and left by its jump to Send-Pending
C19_Witness ==
  /\ Entered(SYNAPTICS_CMD_RESTART, "next") \in last_event.entered
  /\ Entered(SYNAPTICS_CMD_SEND_PENDING, "jump") \in last_event.entered
  /\ ssm_cur_state = SYNAPTICS_CMD_GET_RESP

\* C20: cancel() called during the interrupt wait reaches the interrupt
\* read in flight, the first one and a resubmitted one alike: the read's
\* cancellable is cancelled, so that it resolves as cancelled.
C20_CancelReachesPollRead ==
  [][(n_cancels' > n_cancels /\ cmd_ssm
        /\ ssm_cur_state = SYNAPTICS_CMD_WAIT_INTERRUPT) =>
       \A t \in BagToSet(transfers') :
         t.kind = "interrupt" => t.tok \in cancelled_toks']_vars

\* C21: an interrupt wait that resolves as cancelled does not fail the run:
\* the run jumps to Get-Response and submits the reply read; an interrupt
\* wait that resolves with another error fails the run with that error.
C21_InterruptErrors ==
  last_event.h = "cmd_interrupt_cb" =>
    /\ last_event.cancelled =>
         /\ last_event.ended = "none" /\ cmd_ssm
         /\ last_event.cb_null = 0
         /\ last_event.entered = {Entered(SYNAPTICS_CMD_GET_RESP, "jump")}
         /\ ssm_cur_state = SYNAPTICS_CMD_GET_RESP
         /\ InFlightOf("reply_read") # {}
    /\ last_event.fault # "none" =>
         /\ last_event.ended = "failed" /\ ~cmd_ssm
         /\ last_event.entered = {}
         /\ last_event.cb_null = 1
         /\ last_event.cb_error = last_event.fault

\* a cancelled interrupt wait has sent the run to read the reply
C21_Witness ==
  /\ last_event.h = "cmd_interrupt_cb" /\ last_event.cancelled
  /\ cmd_ssm /\ ssm_cur_state = SYNAPTICS_CMD_GET_RESP
  /\ InFlightOf("reply_read") # {}

\* C22: a response with id cancel-OK fails the run with the cancelled error
\* and one with cancel-FAIL with a protocol error, whatever its sequence
\* number; the interpreter is called without a response, with that error.
C22_CancelAcks ==
  (last_event.h = "cmd_recieve_cb" /\ last_event.fault = "none"
     /\ last_event.msg_id \in CancelIds) =>
    /\ last_event.ended = "failed" /\ ~cmd_ssm
    /\ last_event.entered = {}
    /\ ~last_event.called
    /\ last_event.cb_null = 1
    /\ last_event.cb_error =
         (IF last_event.msg_id = "BMKT_RSP_CANCEL_OP_OK" THEN "cancelled" ELSE "proto")

\* a cancel-OK with sequence number 0 has failed the run as cancelled
C22_Witness ==
  /\ last_event.msg_id = "BMKT_RSP_CANCEL_OP_OK" /\ last_event.seq = "zero"
  /\ last_event.ended = "failed" /\ last_event.cb_error = "cancelled"
  /\ complete_error = "cancelled"

\* a frame with sequence number 0 that parsed and is not a cancel
\* acknowledgment has been handled
SeqZeroFrame ==
  /\ last_event.h = "cmd_recieve_cb" /\ last_event.fault = "none"
  /\ last_event.seq = "zero" /\ last_event.msg_id \notin CancelIds

\* the general error has failed the run with a protocol error whose code is
\* the big-endian number of the first two payload bytes
GeneralErrorFailed ==
  /\ last_event.ended = "failed" /\ ~cmd_ssm
  /\ ~last_event.called
  /\ last_event.cb_error = "proto"
  /\ last_event.err_code = last_event.payload[1] * 256 + last_event.payload[2]

\* the frame has been ignored: no interpreter call, one state forward
FrameIgnored ==
  /\ ~last_event.called /\ last_event.cb_null = 0
  /\ last_event.ended = "none" /\ cmd_ssm
  /\ last_event.entered = {Entered(SYNAPTICS_CMD_WAIT_INTERRUPT, "next")}
  /\ ssm_cur_state = SYNAPTICS_CMD_WAIT_INTERRUPT

\* C23 as stated: a frame with sequence number 0 that is not a cancel
\* acknowledgment fails the run when it is a general error and is ignored
\* otherwise, the run going from Get-Response to Wait-Interrupt.
C23_SeqZeroIgnored ==
  SeqZeroFrame =>
    IF last_event.msg_id = "BMKT_RSP_GENERAL_ERROR"
      THEN GeneralErrorFailed
      ELSE FrameIgnored

\* C23: a frame with sequence number 0 that is not a cancel acknowledgment
\* fails the run when it is a general error; a finger-off report that
\* arrives while deferred completion is armed completes the run; any other
\* frame is ignored, the run going from Get-Response to Wait-Interrupt.
C23_SeqZeroHandled ==
  SeqZeroFrame =>
    IF last_event.msg_id = "BMKT_RSP_GENERAL_ERROR"
      THEN GeneralErrorFailed
    ELSE IF last_event.finger = "off" /\ last_event.was_armed
      THEN last_event.ended = "completed"
    ELSE FrameIgnored

\* the general error with payload bytes 1, 2 has failed the run with code 258
C23_Witness ==
  /\ SeqZeroFrame /\ last_event.msg_id = "BMKT_RSP_GENERAL_ERROR"
  /\ last_event.payload = << 1, 2 >> /\ last_event.err_code = 258
  /\ complete_error = "proto"

\* a reply read has returned a finger report
FingerReport ==
  last_event.h = "cmd_recieve_cb" /\ last_event.finger # "none"

\* the length check of the report, the finger_on_sensor it leaves, and the
\* deferred completion on a finger-off report
FingerReportEffects ==
  /\ last_event.finger = "bad" =>
       /\ last_event.ended = "failed" /\ last_event.cb_error = "proto"
       /\ ~last_event.called
  /\ last_event.finger = "on" => finger_on_sensor
  /\ last_event.finger = "off" => ~finger_on_sensor
  /\ (last_event.finger = "off" /\ last_event.was_armed) =>
       /\ last_event.ended = "completed" /\ ~cmd_ssm
       /\ ~last_event.called

\* C24 as stated: a finger report with a payload length other than 1 fails
\* the run; otherwise finger_on_sensor is true for payload 1 and false for
\* any other; a finger-off report while deferred completion is armed
\* completes the run, and a finger report while it is not armed never does.
C24_FingerReportNeverCompletes ==
  FingerReport =>
    /\ FingerReportEffects
    /\ ~last_event.was_armed => last_event.ended # "completed"

\* C24: as above, but a finger report while deferred completion is not
\* armed completes the run only as a response handed to the interpreter:
\* with a sequence number other than 0 and marked complete.
C24_FingerReportHandled ==
  FingerReport =>
    /\ FingerReportEffects
    /\ (~last_event.was_armed /\ last_event.ended = "completed") =>
         /\ last_event.seq # "zero"
         /\ last_event.called /\ last_event.complete

\* a finger-off report has completed the run whose completion was deferred
C24_Witness ==
  /\ FingerReport /\ last_event.finger = "off" /\ last_event.was_armed
  /\ last_event.ended = "completed" /\ ~finger_on_sensor
  /\ deferred_reported

\* the command write is the one transfer of the run in flight
CmdWriteInFlight ==
  /\ RunInFlight = 1
  /\ \E t \in InFlightOf("cmd_write") : CopiesIn(t, transfers) = 1

ReplyReadInFlight ==
  /\ RunInFlight = 1
  /\ \E t \in InFlightOf("reply_read") : CopiesIn(t, transfers) = 1

\* C25: a command sent with a sequence number other than -1 while a run is
\* active, which is the interpreter's call from the reply handler, creates
\* no state machine: the frame is stored in cmd_pending_transfer and the
\* run jumps to Send-Pending, which writes it; no reply read is submitted
\* before, and none is ever in flight while a frame is stored.
C25_QueuedCommandWritten ==
  /\ (last_event.h = "cmd_recieve_cb" /\ last_event.cmd # "none") =>
       /\ seq_arg # -1
       /\ last_event.queued
       /\ cmd_ssm /\ live_ssm = 1
       /\ last_event.entered = {Entered(SYNAPTICS_CMD_SEND_PENDING, "jump")}
       /\ ssm_cur_state = SYNAPTICS_CMD_SEND_PENDING
       /\ ~cmd_pending_transfer
       /\ CmdWriteInFlight
  /\ InFlightOf("reply_read") # {} => ~cmd_pending_transfer

\* list has asked for the next report while its run was active
C25_Witness ==
  /\ last_event.h = "cmd_recieve_cb"
  /\ last_event.cmd = "BMKT_CMD_GET_NEXT_QUERY_RESPONSE"
  /\ last_event.queued /\ ~cmd_pending_transfer
  /\ ssm_cur_state = SYNAPTICS_CMD_SEND_PENDING /\ CmdWriteInFlight

\* C26: Send-Pending with a command queued submits the write, empties the
\* slot and stays until the write completes: a write that succeeds takes
\* the run to Get-Response, one that fails fails the run.  Send-Pending
\* with no command queued goes on to Get-Response at once, with no write.
C26_SendPending ==
  /\ ~cmd_pending_transfer
  /\ (\E by \in {"start", "jump"} :
        Entered(SYNAPTICS_CMD_SEND_PENDING, by) \in last_event.entered) =>
       IF last_event.cmd # "none"
         THEN /\ ssm_cur_state = SYNAPTICS_CMD_SEND_PENDING
              /\ Entered(SYNAPTICS_CMD_GET_RESP, "next") \notin last_event.entered
              /\ CmdWriteInFlight
         ELSE /\ ssm_cur_state = SYNAPTICS_CMD_GET_RESP
              /\ Entered(SYNAPTICS_CMD_GET_RESP, "next") \in last_event.entered
              /\ ReplyReadInFlight
  /\ (last_event.h = "fpi_ssm_usb_transfer_cb" /\ last_event.kind = "cmd_write") =>
       IF last_event.fault = "none"
         THEN /\ last_event.entered = {Entered(SYNAPTICS_CMD_GET_RESP, "next")}
              /\ ssm_cur_state = SYNAPTICS_CMD_GET_RESP
              /\ last_event.ended = "none"
              /\ ReplyReadInFlight
         ELSE /\ last_event.entered = {}
              /\ last_event.ended = "failed" /\ ~cmd_ssm
              /\ last_event.cb_error = last_event.fault

\* the write of the queued command has succeeded and the run reads the reply
C26_Witness ==
  /\ last_event.h = "fpi_ssm_usb_transfer_cb" /\ last_event.kind = "cmd_write"
  /\ last_event.fault = "none"
  /\ ssm_cur_state = SYNAPTICS_CMD_GET_RESP /\ ReplyReadInFlight

\* the state of the run and of the session
SessionState ==
  << cmd_ssm, ssm_cur_state, ssm_data, cmd_pending_transfer, last_seq_num,
     cmd_seq_num, cmd_complete_on_removal, cmd_complete_error,
     finger_on_sensor, enroll_stage, list_result, interrupt_cancellable,
     cancelled_toks, action, n_complete, complete_error, complete_result >>

\* C27: a command sent with sequence number -1 is submitted at once and
\* leaves cmd_ssm, the state of the run, cmd_pending_transfer and
\* cmd_seq_num as they were, with or without an active run; the completion
\* of its write, with or without an error, changes nothing of the run or of
\* the session.
C27_ForgetCommand ==
  [][/\ (~crashed' /\ last_event'.cmd # "none" /\ seq_arg' = -1) =>
          /\ UNCHANGED << cmd_ssm, ssm_cur_state, ssm_data,
                          cmd_pending_transfer, cmd_seq_num >>
          /\ transfers' = transfers (+) SetToBag({Transfer("forget_write", NoTok, 1000)})
     /\ (~crashed' /\ last_event'.h = "cmd_forget_cb") =>
          /\ UNCHANGED SessionState
          /\ \E t \in InFlightOf("forget_write") :
               transfers' = transfers (-) SetToBag({t})]_vars

\* cancel() has sent its command while the run waits for the interrupt
C27_Witness ==
  /\ last_event.cmd = "BMKT_CMD_CANCEL_OP" /\ seq_arg = -1
  /\ cmd_ssm /\ ssm_cur_state = SYNAPTICS_CMD_WAIT_INTERRUPT
  /\ ForgetInFlight = 1 /\ RunInFlight = 1

\* cancel() has sent its command while no run is active
C27_WitnessIdle ==
  /\ last_event.cmd = "BMKT_CMD_CANCEL_OP" /\ seq_arg = -1
  /\ ~cmd_ssm /\ ForgetInFlight = 1

\* the interrupt reads submitted in the step
NewInterruptWaits ==
  { t \in BagToSet(transfers') :
      t.kind = "interrupt" /\ CopiesIn(t, transfers') > CopiesIn(t, transfers) }

C29_CancelledOnlyAfterCancel ==
  (last_event.ended = "failed" /\ last_event.cb_error = "cancelled") =>
    cancel_during_run

\* C30: once an action has been completed and its handler has returned, no
\* command state machine is active, so that the assertions of
\* synaptics_sensor_cmd on its callback argument never fail.
C30_NoRunAfterComplete ==
  /\ (action = "none" /\ n_complete >= 1) => ~cmd_ssm
  /\ ~crashed

\* C31: a verify action completed without an error has made exactly one
\* match report before, also when a no-match result was deferred until the
\* finger was removed.
C31_VerifyReportsOnce ==
  (last_event.action = "verify" /\ n_complete >= 1 /\ complete_error = "none") =>
    n_report = 1

\* C32: the sequence number written to the frame of a command issued with
\* seq_num 0 or -1 is never 0, the number of asynchronous device events.
C32_FrameSeqNeverZero ==
  (last_event.cmd # "none" /\ seq_arg <= 0) => real_seq_num # 0

\* deferred completion was armed when the run ended
ArmedAtEnd ==
  IF last_event.called THEN last_event.armed ELSE last_event.was_armed

\* C33: when a run has ended cmd_ssm is NULL, cmd_complete_on_removal is
\* false and cmd_complete_error is NULL, so that no run starts with
\* deferred completion armed; at its end the interpreter is called, once
\* and without a response, exactly when the run failed or deferred
\* completion was armed.
C33_RunEndClearsDeferred ==
  /\ ~cmd_ssm => (~cmd_complete_on_removal /\ cmd_complete_error = "none")
  /\ Entered(SYNAPTICS_CMD_SEND_PENDING, "start") \in last_event.entered =>
       (~cmd_complete_on_removal /\ cmd_complete_error = "none")
  /\ last_event.ended # "none" =>
       /\ ~cmd_ssm
       /\ last_event.cb_null =
            (IF last_event.ended = "failed" \/ ArmedAtEnd THEN 1 ELSE 0)
  /\ last_event.ended = "none" => last_event.cb_null = 0

\* a verify run that had armed the deferred retry error has ended: the
\* interpreter was called with it and nothing is left armed
C33_Witness ==
  /\ last_event.ended = "completed" /\ last_event.was_armed
  /\ last_event.cb_null = 1 /\ last_event.cb_error = "retry"
  /\ ~cmd_ssm /\ ~cmd_complete_on_removal /\ cmd_complete_error = "none"

\* the assertion of synaptics_sensor_cmd that the slot is empty has failed
SlotAssertFailed == assert_failed = "cmd_pending_transfer == NULL"

\* C40: cmd_pending_transfer is NULL whenever the driver waits for a
\* transfer completion: a command stored by synaptics_sensor_cmd, from an
\* action entry point or from an interpreter callback, is the command write
\* in flight when the handler returns, and the assertion that the slot is
\* empty never fails.
C40_SlotEmptyWhileWaiting ==
  /\ ~cmd_pending_transfer
  /\ ~SlotAssertFailed
  /\ (last_event.cmd # "none" /\ seq_arg # -1) => CmdWriteInFlight

\* the second action of a session has stored its command over an empty slot
C40_Witness ==
  /\ last_event.h = "none" /\ last_event.cmd # "none" /\ seq_arg = 0
  /\ n_actions = 2 /\ ~crashed
  /\ ~cmd_pending_transfer /\ CmdWriteInFlight

\* the version check of dev_probe was reached
VersionChecked == probe.done /\ probe.fault \in {"none", "serial"}

\* version v is older than major.minor
OlderThan(v, major, minor) ==
  \/ v.version_major < major
  \/ (v.version_major = major /\ v.version_minor < minor)

\* C34: dev_probe rejects the device for its firmware version exactly when
\* the version is older than 10.1, or is 10.1 with a build number below
\* 2989158; every other version, those of a major version above 10 with any
\* minor version included, passes the check.
C34_VersionCheck ==
  VersionChecked =>
    ((probe.error = "general") <=>
       \/ OlderThan(probe.mis_version, 10, 1)
       \/ (probe.mis_version.version_major = 10
            /\ probe.mis_version.version_minor = 1
            /\ probe.mis_version.build_num < 2989158))

VirtualTypeOK ==
  /\ Len(vdev.pending_commands) <= MaxQueue
  /\ vdev.sources \subseteq 1 .. NSources
  /\ vdev.current_action \in {"none", "enroll", "verify"}

\* the call of process_cmds the last handler made
LastCall == vdev.last

StorageCmd(cmd) == cmd.prefix \in {INSERT_CMD_PREFIX, REMOVE_CMD_PREFIX}

\* the number of INSERT and REMOVE commands queue q begins with
RECURSIVE HeadRun(_)
HeadRun(q) ==
  IF q # << >> /\ StorageCmd(Head(q)) THEN 1 + HeadRun(Tail(q)) ELSE 0

\* storage st after the INSERT and REMOVE commands among the first n of q,
\* applied in the order of the queue
RECURSIVE Applied(_, _, _)
Applied(st, q, n) ==
  IF n = 0 THEN st
  ELSE LET cmd == Head(q)
           st1 == IF cmd.prefix = INSERT_CMD_PREFIX THEN st \cup {cmd.arg}
                  ELSE IF cmd.prefix = REMOVE_CMD_PREFIX THEN st \ {cmd.arg}
                  ELSE st
       IN Applied(st1, Tail(q), n - 1)

\* the commands of q after the first n
After(q, n) == SubSeq(q, n + 1, Len(q))

RECURSIVE FirstResult(_, _)
FirstResult(q, i) ==
  IF i > Len(q) THEN 0
  ELSE IF q[i].prefix \in {SCAN_CMD_PREFIX, ERROR_CMD_PREFIX} THEN i
  ELSE FirstResult(q, i + 1)

\* the verify or enroll that made the last call
LastScanAction ==
  IF LastCall.rerun # "none" THEN LastCall.rerun
  ELSE IF LastCall.h = "dev_verify" THEN "verify"
  ELSE IF LastCall.h = "dev_enroll" THEN "enroll"
  ELSE "none"

Waiting == vdev.current_action # "none"

\* the action is over, or the process was aborted
WaitOver == vdev.current_action = "none" \/ vdev.crashed

\* recv_instruction_cb has queued a command
CommandQueued ==
  /\ LastCall.h = "recv_instruction_cb"
  /\ LastCall.cmd \in {c.prefix : c \in QueuedCmds}

\* What holds of the wait timer in every state: an action that found no
\* runnable command stays current with one timer armed; no second timer
\* exists; a command that arrives clears the timer and runs the action
\* again; the timer that fires fails the action with the timed-out error.
WaitTimerRules ==
  /\ Cardinality(vdev.sources) <= 1
  /\ vdev.sources =
       (IF vdev.wait_command_id = 0 THEN {} ELSE {vdev.wait_command_id})
  /\ Waiting <=> vdev.wait_command_id # 0
  /\ (LastCall.processed /\ LastCall.scan
        /\ LastCall.error = G_IO_ERROR_NOT_FOUND) =>
       /\ LastCall.waits
       /\ vdev.current_action = LastScanAction
       /\ vdev.n_complete = 0
       /\ Cardinality(vdev.sources) = 1
  /\ (CommandQueued /\ LastCall.action # "none") =>
       /\ LastCall.cleared # 0
       /\ LastCall.rerun = LastCall.action
       /\ LastCall.processed
  /\ LastCall.h = "wait_for_command_timeout" =>
       /\ LastCall.action # "none"
       /\ vdev.current_action = "none"
       /\ vdev.n_complete = 1
       /\ vdev.complete_error = G_IO_ERROR_TIMED_OUT
       /\ vdev.wait_command_id = 0

\* a command arrives for a waiting action and leaves it waiting
RecvKeepsWaiting ==
  /\ RecvInstruction
  /\ vdev.current_action # "none"
  /\ vdev'.current_action # "none"

C37_WitnessTimeout ==
  /\ LastCall.h = "wait_for_command_timeout" /\ LastCall.action = "enroll"
  /\ vdev.complete_error = G_IO_ERROR_TIMED_OUT

ContextTypeOK ==
  /\ context.pending_devices \in 0 .. MaxInits
  /\ Len(context.inits) <= MaxInits

\* what the last handler of the context did
LastAdd == context.last

\* the entries of an id table before the entry that ends it
RECURSIVE TableEntries(_)
TableEntries(table) ==
  IF table = << >> \/ Head(table) = EndEntry THEN {}
  ELSE {Head(table)} \cup TableEntries(Tail(table))

\* driver class cls is a USB driver with an entry for the device
Handles(cls, device) ==
  /\ cls.type = FP_DEVICE_TYPE_USB
  /\ \E e \in TableEntries(cls.id_table) :
       e.vid = device.vid /\ e.pid = device.pid

\* the drivers that could be chosen for the device of the last handler
Candidates ==
  {i \in 1 .. Len(context.drivers) :
     Handles(context.drivers[i], LastAdd.device) /\ LastAdd.scores[i] > 0}

\* the candidate with the highest score, the first registered of them
BestCandidate ==
  CHOOSE i \in Candidates :
    \A k \in Candidates :
      \/ LastAdd.scores[k] < LastAdd.scores[i]
      \/ (LastAdd.scores[k] = LastAdd.scores[i] /\ i <= k)

\* C38: for an added USB device usb_device_added_cb starts the
\* initialisation of at most one driver: of the USB drivers with an entry
\* matching vid and pid and a score above 0, where the score is 50 unless
\* usb_discover returns another value, the one with the highest score, and
\* of those with that score the one registered first; it starts none when
\* there is no such driver.
C38_BestDriverChosen ==
  LastAdd.device.vid # 0 =>
    IF Candidates = {}
      THEN LastAdd.driver = 0 /\ LastAdd.usb_started = 0
      ELSE LastAdd.driver = BestCandidate /\ LastAdd.usb_started = 1

\* two drivers have an entry for the device and the same score: the first
\* was chosen
C38_Witness ==
  /\ LastAdd.h = "usb_device_added_cb"
  /\ Candidates = {1, 3}
  /\ LastAdd.scores[1] = LastAdd.scores[3]
  /\ LastAdd.driver = 1 /\ LastAdd.usb_started = 1

\* C39: pending_devices counts the initialisations started and not yet
\* finished, whatever their outcome; fp_context_enumerate returns only when
\* none is left, and a second call starts no initialisation.
C39_PendingCountsInits ==
  /\ context.pending_devices = context.n_started - context.n_finished
  /\ LastAdd.h = "fp_context_enumerate_return" => context.inits = << >>
  /\ (LastAdd.h = "fp_context_enumerate" /\ LastAdd.was_enumerated) =>
       LastAdd.started = 0

=============================================================================
